---- MODULE Spec2Model ----
(***************************************************************************)
(* RV32-emu: architectural state (cpu.rs), decoder (decoder.rs), executor  *)
(* (executor.rs) and metrics (metrics.rs) as a state machine.              *)
(*                                                                         *)
(* A 32-bit value (Rust u32, or i32 seen as its bit pattern) is a record   *)
(* [hi, lo] of two 16-bit halves, value = hi * 2^16 + lo.  A cast between  *)
(* u32 and i32 keeps the bit pattern, so `x as u32` and `x as i32` are the *)
(* identity on this representation; signedness shows only in the          *)
(* operations that read it (arithmetic shift, signed comparison).          *)
(***************************************************************************)
EXTENDS Integers, Sequences, FiniteSets, TLC

\* ------------------------------------------------------------- bounds

\* Bytes of memory of the modelled machine (MEM_SIZE of cpu.rs, scaled down).
MemSize == 24
\* Words of the program image drawn from the palette and loaded at address 0.
ProgLen == 2
\* Step calls (direct or from run) one behaviour makes at most.
MaxCalls == 3
\* Largest max_steps argument given to run.
MaxRun == 3
\* Calls of assemble made on one Assembler.
MaxAssemble == 2
\* Largest loop count of the loop program (5 in the scenario).
MaxLoop == 6
\* Step calls made through one Debugger, and breakpoints it is given.
MaxDebug == 8
MaxBreaks == 2

\* ------------------------------------------------- 32-bit arithmetic

W(h, l) == [hi |-> h, lo |-> l]
Zero32 == W(0, 0)
Ones32 == W(65535, 65535)
U32 == [hi : 0..65535, lo : 0..65535]

\* A small natural as a 32-bit value.
FromNat(n) == W(n \div 65536, n % 65536)

RECURSIVE And16(_, _)
And16(a, b) ==
    IF a = 0 \/ b = 0 THEN 0
    ELSE (a % 2) * (b % 2) + 2 * And16(a \div 2, b \div 2)

RECURSIVE Or16(_, _)
Or16(a, b) ==
    IF a = 0 THEN b
    ELSE IF b = 0 THEN a
    ELSE (IF a % 2 = 1 \/ b % 2 = 1 THEN 1 ELSE 0) + 2 * Or16(a \div 2, b \div 2)

RECURSIVE Xor16(_, _)
Xor16(a, b) ==
    IF a = 0 THEN b
    ELSE IF b = 0 THEN a
    ELSE ((a + b) % 2) + 2 * Xor16(a \div 2, b \div 2)

\* Rust `a & b`, `a | b`, `a ^ b` on u32.
BitAnd(a, b) == W(And16(a.hi, b.hi), And16(a.lo, b.lo))
BitOr(a, b) == W(Or16(a.hi, b.hi), Or16(a.lo, b.lo))
BitXor(a, b) == W(Xor16(a.hi, b.hi), Xor16(a.lo, b.lo))

\* Rust u32::wrapping_add and u32::wrapping_sub.
wrapping_add(a, b) ==
    LET l == a.lo + b.lo
    IN  W((a.hi + b.hi + (l \div 65536)) % 65536, l % 65536)

wrapping_sub(a, b) ==
    LET l == a.lo - b.lo
    IN  W((a.hi - b.hi + (l \div 65536)) % 65536, l % 65536)

\* Rust `a << n` and `a >> n` on u32, for 0 <= n <= 31.
Shl(a, n) ==
    IF n = 0 THEN a
    ELSE IF n >= 16 THEN W((a.lo * 2^(n - 16)) % 65536, 0)
    ELSE W(((a.hi * 2^n) % 65536) + (a.lo \div 2^(16 - n)), (a.lo * 2^n) % 65536)

Shr(a, n) ==
    IF n = 0 THEN a
    ELSE IF n >= 16 THEN W(0, a.hi \div 2^(n - 16))
    ELSE W(a.hi \div 2^n, (a.lo \div 2^n) + (a.hi % 2^n) * 2^(16 - n))

\* The sign bit of the value read as i32.
IsNeg(a) == a.hi >= 32768

\* Rust `(a as i32) >> n`: the vacated high bits take the sign bit.
Sar(a, n) ==
    IF n = 0 \/ ~IsNeg(a) THEN Shr(a, n)
    ELSE BitOr(Shr(a, n), Shl(Ones32, 32 - n))

\* Rust `a < b` on u32 and on i32.
LtU(a, b) == a.hi < b.hi \/ (a.hi = b.hi /\ a.lo < b.lo)
LtS(a, b) == IF IsNeg(a) # IsNeg(b) THEN IsNeg(a) ELSE LtU(a, b)

\* ------------------------------------------------------------ cpu.rs

NREGS == 32

\* write_reg without the `rd != 0` test.
write_reg_unguarded(regs, rd, val) == [regs EXCEPT ![rd] = val]

\* Cpu::write_reg: a write to register 0 is dropped.
write_reg(regs, rd, val) ==
    IF rd # 0 THEN [regs EXCEPT ![rd] = val] ELSE regs

\* Cpu::read_reg.
read_reg(regs, rs) == regs[rs]

\* The bounds test off by one: `addr + 4 >= self.mem.len()` panics.
in_bounds_strict(len, addr) ==
    /\ addr.hi <= len \div 65536
    /\ addr.hi * 65536 + addr.lo + 4 < len

\* The bounds test of read_word and write_word: `addr + 4 > self.mem.len()`
\* panics, with addr widened to usize (64 bits, no wrap).
in_bounds(len, addr) ==
    /\ addr.hi <= len \div 65536
    /\ addr.hi * 65536 + addr.lo + 4 <= len

\* The index of byte k of the word at addr (defined when in_bounds).
ByteAt(addr, k) == addr.hi * 65536 + addr.lo + k

\* self.mem.len(); mem is a function on 0 .. len-1.
mem_len(mem) == Cardinality(DOMAIN mem)

\* Cpu::read_word: u32::from_le_bytes of mem[addr .. addr+3].
read_word(mem, addr) ==
    W(mem[ByteAt(addr, 3)] * 256 + mem[ByteAt(addr, 2)],
      mem[ByteAt(addr, 1)] * 256 + mem[ByteAt(addr, 0)])

\* u32::to_be_bytes: byte k of val, most significant first.
be_byte(val, k) ==
    CASE k = 0 -> val.hi \div 256
      [] k = 1 -> val.hi % 256
      [] k = 2 -> val.lo \div 256
      [] k = 3 -> val.lo % 256

\* u32::to_le_bytes: byte k of val.
le_byte(val, k) ==
    CASE k = 0 -> val.lo % 256
      [] k = 1 -> val.lo \div 256
      [] k = 2 -> val.hi % 256
      [] k = 3 -> val.hi \div 256

\* write_word copying one byte too many (a zero byte at addr+4).
write_word_wide(mem, addr, val) ==
    [i \in DOMAIN mem |->
        IF ByteAt(addr, 0) <= i /\ i <= ByteAt(addr, 3)
        THEN le_byte(val, i - ByteAt(addr, 0))
        ELSE IF i = ByteAt(addr, 4) THEN 0 ELSE mem[i]]

\* Cpu::write_word: the 4 bytes at addr .. addr+3 take val, little-endian.
write_word(mem, addr, val) ==
    [i \in DOMAIN mem |->
        IF ByteAt(addr, 0) <= i /\ i <= ByteAt(addr, 3)
        THEN le_byte(val, i - ByteAt(addr, 0))
        ELSE mem[i]]

\* -------------------------------------------------------- decoder.rs

\* enum Opcode; the names are those of its Debug form, the keys of inst_mix.
Opcodes ==
    {"Add", "Sub", "And", "Or", "Xor", "Sll", "Srl", "Sra",
     "Addi", "Andi", "Ori", "Xori", "Slli", "Srli", "Srai",
     "Lw", "Jalr", "Sw", "Beq", "Bne", "Blt", "Bge",
     "Lui", "Auipc", "Jal", "Unknown"}

\* struct Instruction.
Instruction(op, rd, rs1, rs2, imm) ==
    [opcode |-> op, rd |-> rd, rs1 |-> rs1, rs2 |-> rs2, imm |-> imm]

\* `(raw >> shift) & (2^width - 1)` as a number, width <= 16.
Bits(raw, shift, width) == Shr(raw, shift).lo % 2^width

\* fn sign_extend(val, bits): ((val << shift) as i32) >> shift, shift = 32 - bits.
sign_extend(val, bits) ==
    LET shift == 32 - bits
    IN  Sar(Shl(val, shift), shift)

\* The (funct3, funct7) table of the r-type arm.
decode_rtype(funct3, funct7) ==
    CASE funct3 = 0 /\ funct7 = 0  -> "Add"
      [] funct3 = 0 /\ funct7 = 32 -> "Sub"
      [] funct3 = 7 /\ funct7 = 0  -> "And"
      [] funct3 = 6 /\ funct7 = 0  -> "Or"
      [] funct3 = 4 /\ funct7 = 0  -> "Xor"
      [] funct3 = 1 /\ funct7 = 0  -> "Sll"
      [] funct3 = 5 /\ funct7 = 0  -> "Srl"
      [] funct3 = 5 /\ funct7 = 32 -> "Sra"
      [] OTHER -> "Unknown"

\* The i-type table with bit 30 of the word alone choosing between srli and
\* srai.
decode_itype_bit30(funct3, funct7) ==
    CASE funct3 = 0 -> "Addi"
      [] funct3 = 7 -> "Andi"
      [] funct3 = 6 -> "Ori"
      [] funct3 = 4 -> "Xori"
      [] funct3 = 1 -> "Slli"
      [] funct3 = 5 -> IF (funct7 \div 32) % 2 = 1 THEN "Srai" ELSE "Srli"
      [] OTHER -> "Unknown"

\* The funct3 (and, for funct3 = 5, funct7) table of the i-type alu arm.
decode_itype(funct3, funct7) ==
    CASE funct3 = 0 -> "Addi"
      [] funct3 = 7 -> "Andi"
      [] funct3 = 6 -> "Ori"
      [] funct3 = 4 -> "Xori"
      [] funct3 = 1 -> "Slli"
      [] funct3 = 5 ->
            IF funct7 = 0 THEN "Srli"
            ELSE IF funct7 = 32 THEN "Srai"
            ELSE "Unknown"
      [] OTHER -> "Unknown"

\* The funct3 table of the branch arm.
decode_branch(funct3) ==
    CASE funct3 = 0 -> "Beq"
      [] funct3 = 1 -> "Bne"
      [] funct3 = 4 -> "Blt"
      [] funct3 = 5 -> "Bge"
      [] OTHER -> "Unknown"

\* The b-type immediate: imm[12|11|10:5|4:1] from word[31|7|30:25|11:8].
\* The fields are disjoint, so `|` of the shifted fields is their sum.
imm_btype(raw) ==
    LET imm_11 == Bits(raw, 7, 1)
        imm_4_1 == Bits(raw, 8, 4)
        imm_10_5 == Bits(raw, 25, 6)
        imm_12 == Bits(raw, 31, 1)
    IN  sign_extend(FromNat(imm_12 * 4096 + imm_11 * 2048 + imm_10_5 * 32 + imm_4_1 * 2), 13)

\* The j-type immediate: imm[20|19:12|11|10:1] from word[31|19:12|20|30:21].
imm_jtype(raw) ==
    LET imm_19_12 == Bits(raw, 12, 8)
        imm_11 == Bits(raw, 20, 1)
        imm_10_1 == Bits(raw, 21, 10)
        imm_20 == Bits(raw, 31, 1)
    IN  sign_extend(FromNat(imm_20 * 1048576 + imm_19_12 * 4096 + imm_11 * 2048 + imm_10_1 * 2), 21)

\* The s-type immediate: (imm_high << 5) | imm_low.
imm_stype(raw) ==
    LET imm_low == Bits(raw, 7, 5)
        imm_high == Bits(raw, 25, 7)
    IN  sign_extend(FromNat(imm_high * 32 + imm_low), 12)

\* The u-type immediate: raw & 0xfffff000.
imm_utype(raw) == W(raw.hi, raw.lo - (raw.lo % 4096))

\* decode with rd and rs2 filled in whether or not the format has them.
decode_all_fields(raw) ==
    LET opcode_bits == raw.lo % 128
        rd == Bits(raw, 7, 5)
        funct3 == Bits(raw, 12, 3)
        rs1 == Bits(raw, 15, 5)
        rs2 == Bits(raw, 20, 5)
        funct7 == Bits(raw, 25, 7)
    IN  CASE opcode_bits = 51  -> Instruction(decode_rtype(funct3, funct7), rd, rs1, rs2, Zero32)
          [] opcode_bits = 19  ->
                Instruction(decode_itype(funct3, funct7), rd, rs1, rs2, sign_extend(Shr(raw, 20), 12))
          [] opcode_bits = 3   -> Instruction("Lw", rd, rs1, rs2, sign_extend(Shr(raw, 20), 12))
          [] opcode_bits = 35  -> Instruction("Sw", rd, rs1, rs2, imm_stype(raw))
          [] opcode_bits = 99  -> Instruction(decode_branch(funct3), rd, rs1, rs2, imm_btype(raw))
          [] opcode_bits = 55  -> Instruction("Lui", rd, 0, 0, imm_utype(raw))
          [] opcode_bits = 23  -> Instruction("Auipc", rd, 0, 0, imm_utype(raw))
          [] opcode_bits = 111 -> Instruction("Jal", rd, 0, 0, imm_jtype(raw))
          [] opcode_bits = 103 -> Instruction("Jalr", rd, rs1, rs2, sign_extend(Shr(raw, 20), 12))
          [] OTHER -> Instruction("Unknown", 0, 0, 0, Zero32)

\* Instruction::decode.
decode(raw) ==
    LET opcode_bits == raw.lo % 128
        rd == Bits(raw, 7, 5)
        funct3 == Bits(raw, 12, 3)
        rs1 == Bits(raw, 15, 5)
        rs2 == Bits(raw, 20, 5)
        funct7 == Bits(raw, 25, 7)
    IN  CASE opcode_bits = 51  -> Instruction(decode_rtype(funct3, funct7), rd, rs1, rs2, Zero32)
          [] opcode_bits = 19  ->
                Instruction(decode_itype(funct3, funct7), rd, rs1, 0, sign_extend(Shr(raw, 20), 12))
          [] opcode_bits = 3   -> Instruction("Lw", rd, rs1, 0, sign_extend(Shr(raw, 20), 12))
          [] opcode_bits = 35  -> Instruction("Sw", 0, rs1, rs2, imm_stype(raw))
          [] opcode_bits = 99  -> Instruction(decode_branch(funct3), 0, rs1, rs2, imm_btype(raw))
          [] opcode_bits = 55  -> Instruction("Lui", rd, 0, 0, imm_utype(raw))
          [] opcode_bits = 23  -> Instruction("Auipc", rd, 0, 0, imm_utype(raw))
          [] opcode_bits = 111 -> Instruction("Jal", rd, 0, 0, imm_jtype(raw))
          [] opcode_bits = 103 -> Instruction("Jalr", rd, rs1, 0, sign_extend(Shr(raw, 20), 12))
          [] OTHER -> Instruction("Unknown", 0, 0, 0, Zero32)

\* -------------------------------------------------------- metrics.rs

\* Metrics::new (start_time, read only by mips, is left out).
NewMetrics ==
    [inst_count |-> 0, inst_mix |-> <<>>, branch_taken |-> 0, branch_not_taken |-> 0]

\* record_instruction with `inst_mix.insert(name, 1)` for the entry update.
record_instruction_insert(metrics, inst) ==
    [metrics EXCEPT
        !.inst_count = @ + 1,
        !.inst_mix = [k \in DOMAIN @ \cup {inst.opcode} |->
                        IF k = inst.opcode THEN 1 ELSE @[k]]]

\* Metrics::record_instruction: inst_count += 1; *inst_mix.entry(name).or_insert(0) += 1.
record_instruction(metrics, inst) ==
    LET name == inst.opcode
    IN  [metrics EXCEPT
            !.inst_count = @ + 1,
            !.inst_mix = IF name \in DOMAIN @
                         THEN [@ EXCEPT ![name] = @ + 1]
                         ELSE @ @@ (name :> 1)]

\* record_branch counting every outcome as taken.
record_branch_always_taken(metrics, taken) ==
    [metrics EXCEPT !.branch_taken = @ + 1]

\* Metrics::record_branch.
record_branch(metrics, taken) ==
    IF taken
    THEN [metrics EXCEPT !.branch_taken = @ + 1]
    ELSE [metrics EXCEPT !.branch_not_taken = @ + 1]

\* ------------------------------------------------------- executor.rs

\* What a call of step yields: Ok(()), Err(message), or a panic that unwinds
\* out of step (read_word and write_word panic; step returns nothing then).
\* `at` is the number the message prints.
StepOk == [tag |-> "Ok", msg |-> "", at |-> Zero32]
ErrHalted == [tag |-> "Err", msg |-> "cpu halted", at |-> Zero32]
ErrUnknown(pc) == [tag |-> "Err", msg |-> "unknown instruction at pc", at |-> pc]
PanicRead(addr) == [tag |-> "Panic", msg |-> "memory access out of bounds", at |-> addr]
PanicWrite(addr) == [tag |-> "Panic", msg |-> "memory write out of bounds", at |-> addr]
NoResult == [tag |-> "None", msg |-> "", at |-> Zero32]

Outcome(c, m, r) == [cpu |-> c, metrics |-> m, res |-> r]

\* The r-type arms with `& 0xf` as shift mask.
exec_rtype_mask4(op, rs1, rs2) ==
    CASE op = "Add" -> wrapping_add(rs1, rs2)
      [] op = "Sub" -> wrapping_sub(rs1, rs2)
      [] op = "And" -> BitAnd(rs1, rs2)
      [] op = "Or"  -> BitOr(rs1, rs2)
      [] op = "Xor" -> BitXor(rs1, rs2)
      [] op = "Sll" -> Shl(rs1, rs2.lo % 16)
      [] op = "Srl" -> Shr(rs1, rs2.lo % 16)
      [] op = "Sra" -> Sar(rs1, rs2.lo % 16)

\* The value an r-type arm writes to rd.
exec_rtype(op, rs1, rs2) ==
    CASE op = "Add" -> wrapping_add(rs1, rs2)
      [] op = "Sub" -> wrapping_sub(rs1, rs2)
      [] op = "And" -> BitAnd(rs1, rs2)
      [] op = "Or"  -> BitOr(rs1, rs2)
      [] op = "Xor" -> BitXor(rs1, rs2)
      [] op = "Sll" -> Shl(rs1, rs2.lo % 32)
      [] op = "Srl" -> Shr(rs1, rs2.lo % 32)
      [] op = "Sra" -> Sar(rs1, rs2.lo % 32)

\* The i-type values with srai filling with zeros.
exec_itype_zero_fill(op, rs1, imm) ==
    CASE op = "Addi" -> wrapping_add(rs1, imm)
      [] op = "Andi" -> BitAnd(rs1, imm)
      [] op = "Ori"  -> BitOr(rs1, imm)
      [] op = "Xori" -> BitXor(rs1, imm)
      [] op = "Slli" -> Shl(rs1, imm.lo % 32)
      [] op = "Srli" -> Shr(rs1, imm.lo % 32)
      [] op = "Srai" -> Shr(rs1, imm.lo % 32)

\* The value an i-type alu arm writes to rd.
exec_itype(op, rs1, imm) ==
    CASE op = "Addi" -> wrapping_add(rs1, imm)
      [] op = "Andi" -> BitAnd(rs1, imm)
      [] op = "Ori"  -> BitOr(rs1, imm)
      [] op = "Xori" -> BitXor(rs1, imm)
      [] op = "Slli" -> Shl(rs1, imm.lo % 32)
      [] op = "Srli" -> Shr(rs1, imm.lo % 32)
      [] op = "Srai" -> Sar(rs1, imm.lo % 32)

\* The comparison with blt and bge on the unsigned values.
branch_cond_unsigned(op, rs1, rs2) ==
    CASE op = "Beq" -> rs1 = rs2
      [] op = "Bne" -> rs1 # rs2
      [] op = "Blt" -> LtU(rs1, rs2)
      [] op = "Bge" -> ~LtU(rs1, rs2)

\* The comparison with the arms of beq and bne exchanged.
branch_cond_exchanged(op, rs1, rs2) ==
    CASE op = "Beq" -> rs1 # rs2
      [] op = "Bne" -> rs1 = rs2
      [] op = "Blt" -> LtS(rs1, rs2)
      [] op = "Bge" -> ~LtS(rs1, rs2)

\* The comparison of a branch arm.
branch_cond(op, rs1, rs2) ==
    CASE op = "Beq" -> rs1 = rs2
      [] op = "Bne" -> rs1 # rs2
      [] op = "Blt" -> LtS(rs1, rs2)
      [] op = "Bge" -> ~LtS(rs1, rs2)

\* The jalr target without the `& !1`.
jalr_target_unmasked(rs1, imm) == wrapping_add(rs1, imm)

\* The jalr target with `& !3`, aligned to a word.
jalr_target_aligned(rs1, imm) ==
    LET t == wrapping_add(rs1, imm)
    IN  W(t.hi, t.lo - (t.lo % 4))

\* The target of a jalr: (rs1 + imm) & !1.
jalr_target(rs1, imm) ==
    LET t == wrapping_add(rs1, imm)
    IN  W(t.hi, t.lo - (t.lo % 2))

\* `cpu.pc = cpu.pc.wrapping_add(4)`.
next_pc(pc) == wrapping_add(pc, FromNat(4))

\* The Unknown arm stepping over the word before it reports it.
exec_unknown_skip(cpu, metrics) ==
    Outcome([cpu EXCEPT !.pc = next_pc(cpu.pc)], metrics, ErrUnknown(cpu.pc))

\* The Unknown arm: Err(format!("unknown instruction at pc=0x{:x}", cpu.pc)).
exec_unknown(cpu, metrics) == Outcome(cpu, metrics, ErrUnknown(cpu.pc))

\* The match on inst.opcode of Executor::step, metrics already updated by
\* record_instruction.
execute(inst, cpu, metrics) ==
    LET op == inst.opcode
        rs1 == read_reg(cpu.regs, inst.rs1)
        rs2 == read_reg(cpu.regs, inst.rs2)
        wr(val, pc) == [cpu EXCEPT !.regs = write_reg(cpu.regs, inst.rd, val), !.pc = pc]
    IN  CASE op \in {"Add", "Sub", "And", "Or", "Xor", "Sll", "Srl", "Sra"} ->
                Outcome(wr(exec_rtype(op, rs1, rs2), next_pc(cpu.pc)), metrics, StepOk)
          [] op \in {"Addi", "Andi", "Ori", "Xori", "Slli", "Srli", "Srai"} ->
                Outcome(wr(exec_itype(op, rs1, inst.imm), next_pc(cpu.pc)), metrics, StepOk)
          [] op = "Lw" ->
                LET addr == wrapping_add(rs1, inst.imm)
                IN  IF in_bounds(mem_len(cpu.mem), addr)
                    THEN Outcome(wr(read_word(cpu.mem, addr), next_pc(cpu.pc)), metrics, StepOk)
                    ELSE Outcome(cpu, metrics, PanicRead(addr))
          [] op = "Sw" ->
                LET addr == wrapping_add(rs1, inst.imm)
                IN  IF in_bounds(mem_len(cpu.mem), addr)
                    THEN Outcome([cpu EXCEPT !.mem = write_word(cpu.mem, addr, rs2),
                                             !.pc = next_pc(cpu.pc)], metrics, StepOk)
                    ELSE Outcome(cpu, metrics, PanicWrite(addr))
          [] op \in {"Beq", "Bne", "Blt", "Bge"} ->
                IF branch_cond(op, rs1, rs2)
                THEN Outcome([cpu EXCEPT !.pc = wrapping_add(cpu.pc, inst.imm)],
                             record_branch(metrics, TRUE), StepOk)
                ELSE Outcome([cpu EXCEPT !.pc = next_pc(cpu.pc)],
                             record_branch(metrics, FALSE), StepOk)
          [] op = "Lui" ->
                Outcome(wr(inst.imm, next_pc(cpu.pc)), metrics, StepOk)
          [] op = "Auipc" ->
                Outcome(wr(wrapping_add(cpu.pc, inst.imm), next_pc(cpu.pc)), metrics, StepOk)
          [] op = "Jal" ->
                Outcome(wr(next_pc(cpu.pc), wrapping_add(cpu.pc, inst.imm)), metrics, StepOk)
          [] op = "Jalr" ->
                Outcome(wr(next_pc(cpu.pc), jalr_target(rs1, inst.imm)), metrics, StepOk)
          [] op = "Unknown" -> exec_unknown(cpu, metrics)

\* step refusing to execute once metrics.inst_count has reached 8.
step_budget(cpu, halted, metrics) ==
    IF halted \/ metrics.inst_count >= 8 THEN Outcome(cpu, metrics, ErrHalted)
    ELSE IF ~in_bounds(mem_len(cpu.mem), cpu.pc) THEN Outcome(cpu, metrics, PanicRead(cpu.pc))
    ELSE LET raw == read_word(cpu.mem, cpu.pc)
             inst == decode(raw)
         IN  execute(inst, cpu, record_instruction(metrics, inst))

\* step without the `if self.halted` test.
step_unhalted(cpu, halted, metrics) ==
    IF ~in_bounds(mem_len(cpu.mem), cpu.pc) THEN Outcome(cpu, metrics, PanicRead(cpu.pc))
    ELSE LET raw == read_word(cpu.mem, cpu.pc)
             inst == decode(raw)
         IN  execute(inst, cpu, record_instruction(metrics, inst))

\* Executor::step: the halted test, the fetch, decode, record_instruction,
\* then the match.  step never writes self.halted.
step(cpu, halted, metrics) ==
    IF halted THEN Outcome(cpu, metrics, ErrHalted)
    ELSE IF ~in_bounds(mem_len(cpu.mem), cpu.pc) THEN Outcome(cpu, metrics, PanicRead(cpu.pc))
    ELSE LET raw == read_word(cpu.mem, cpu.pc)
             inst == decode(raw)
         IN  execute(inst, cpu, record_instruction(metrics, inst))

\* The loop iteration without the halt detection.
run_iter_nohalt(cpu, halted, metrics, steps) ==
    LET o == step(cpu, halted, metrics)
        it(h, n, r) == [cpu |-> o.cpu, metrics |-> o.metrics, res |-> o.res,
                        halted |-> h, steps |-> n, ret |-> r]
    IN  CASE o.res.tag = "Panic" -> it(halted, steps, [tag |-> "Panic", n |-> 0, e |-> o.res])
          [] o.res.tag = "Err"   -> it(halted, steps, [tag |-> "Err", n |-> 0, e |-> o.res])
          [] o.res.tag = "Ok"    -> it(halted, steps + 1, [tag |-> "None", n |-> 0, e |-> NoResult])

\* The loop iteration with `self.halted = true; break;` after every
\* successful step, whatever the PC.
run_iter_halt_anywhere(cpu, halted, metrics, steps) ==
    LET o == step(cpu, halted, metrics)
        it(h, n, r) == [cpu |-> o.cpu, metrics |-> o.metrics, res |-> o.res,
                        halted |-> h, steps |-> n, ret |-> r]
    IN  CASE o.res.tag = "Panic" -> it(halted, steps, [tag |-> "Panic", n |-> 0, e |-> o.res])
          [] o.res.tag = "Err"   -> it(halted, steps, [tag |-> "Err", n |-> 0, e |-> o.res])
          [] o.res.tag = "Ok"    ->
                it(TRUE, steps + 1, [tag |-> "Ok", n |-> steps + 1, e |-> NoResult])

\* One iteration of the while loop of Executor::run: the step, `steps += 1`,
\* and the halt detection `if cpu.pc == 0 { self.halted = true; break; }`.
\* ret is what run returns when the iteration leaves the loop ("None": the
\* loop goes on; "Panic": the panic of step unwinds through run).
run_iter(cpu, halted, metrics, steps) ==
    LET o == step(cpu, halted, metrics)
        it(h, n, r) == [cpu |-> o.cpu, metrics |-> o.metrics, res |-> o.res,
                        halted |-> h, steps |-> n, ret |-> r]
    IN  CASE o.res.tag = "Panic" -> it(halted, steps, [tag |-> "Panic", n |-> 0, e |-> o.res])
          [] o.res.tag = "Err"   -> it(halted, steps, [tag |-> "Err", n |-> 0, e |-> o.res])
          [] o.res.tag = "Ok"    ->
                IF o.cpu.pc = Zero32
                THEN it(TRUE, steps + 1, [tag |-> "Ok", n |-> steps + 1, e |-> NoResult])
                ELSE it(halted, steps + 1, [tag |-> "None", n |-> 0, e |-> NoResult])

\* The loop condition as `steps <= max_steps`.
run_cond_le(steps, max_steps) == steps <= max_steps

\* The loop condition of Executor::run.
run_cond(steps, max_steps) == steps < max_steps

\* `Ok(steps + 1)` after the loop.
run_ok_one_more(steps) == [tag |-> "Ok", n |-> steps + 1, e |-> NoResult]

\* `Ok(steps)` after the loop of Executor::run.
run_ok(steps) == [tag |-> "Ok", n |-> steps, e |-> NoResult]

NoRun == [tag |-> "None", n |-> 0, e |-> NoResult]

\* ------------------------------------------------- program images

\* A word from its six fields funct7 | rs2 | rs1 | funct3 | rd | opcode.
Enc(funct7, rs2, rs1, funct3, rd, opcode) ==
    W(funct7 * 512 + rs2 * 16 + (rs1 \div 2),
      (rs1 % 2) * 32768 + funct3 * 4096 + rd * 128 + opcode)

\* The two's complement of -k in a field of `bits` bits.
Neg(k, bits) == 2^bits - k

\* Words of the i, s, b, u and j formats; imm is the field's bit pattern.
EncI(imm, rs1, funct3, rd, opcode) == Enc(imm \div 32, imm % 32, rs1, funct3, rd, opcode)
EncS(imm, rs2, rs1, funct3) == Enc(imm \div 32, rs2, rs1, funct3, imm % 32, 35)
EncB(imm, rs2, rs1, funct3) ==
    Enc((imm \div 4096) * 64 + ((imm \div 32) % 64), rs2, rs1, funct3,
        ((imm \div 2) % 16) * 2 + ((imm \div 2048) % 2), 99)
EncU(imm, rd, opcode) == W(imm \div 16, (imm % 16) * 4096 + rd * 128 + opcode)
EncJ(imm, rd) ==
    EncU((imm \div 1048576) * 524288 + ((imm \div 2) % 1024) * 512
         + ((imm \div 2048) % 2) * 256 + ((imm \div 4096) % 256), rd, 111)

\* The instruction words a program image is drawn from: every operation
\* kind, destinations x0 and others, aligned and misaligned targets,
\* in-bounds and out-of-bounds addresses, and words no arm decodes.
Palette ==
    { Enc(0, 1, 1, 0, 2, 51),            \* add  x2, x1, x1
      Enc(0, 1, 1, 0, 0, 51),            \* add  x0, x1, x1
      Enc(32, 1, 0, 0, 2, 51),           \* sub  x2, x0, x1
      Enc(0, 1, 1, 7, 2, 51),            \* and  x2, x1, x1
      Enc(0, 0, 1, 6, 2, 51),            \* or   x2, x1, x0
      Enc(0, 0, 1, 4, 2, 51),            \* xor  x2, x1, x0
      Enc(0, 1, 1, 1, 2, 51),            \* sll  x2, x1, x1
      Enc(0, 1, 1, 5, 2, 51),            \* srl  x2, x1, x1
      Enc(32, 1, 1, 5, 2, 51),           \* sra  x2, x1, x1
      EncI(Neg(1, 12), 0, 0, 1, 19),     \* addi x1, x0, -1
      EncI(MemSize - 4, 0, 0, 1, 19),    \* addi x1, x0, <address of the last word>
      EncI(5, 0, 0, 0, 19),              \* addi x0, x0, 5
      EncI(6, 1, 7, 2, 19),              \* andi x2, x1, 6
      EncI(2, 0, 6, 1, 19),              \* ori  x1, x0, 2
      EncI(Neg(1, 12), 1, 4, 2, 19),     \* xori x2, x1, -1
      EncI(4, 1, 1, 2, 19),              \* slli x2, x1, 4
      EncI(4, 1, 5, 2, 19),              \* srli x2, x1, 4
      EncI(1024 + 4, 1, 5, 2, 19),       \* srai x2, x1, 4
      EncI(0, 0, 2, 2, 3),               \* lw   x2, 0(x0)
      EncI(0, 0, 2, 0, 3),               \* lw   x0, 0(x0)
      EncI(2047, 0, 2, 2, 3),            \* lw   x2, 2047(x0)
      EncS(8, 1, 0, 2),                  \* sw   x1, 8(x0)
      EncS(Neg(1, 12), 1, 0, 2),         \* sw   x1, -1(x0)
      EncS(0, 1, 1, 2),                  \* sw   x1, 0(x1)
      EncB(8, 0, 0, 0),                  \* beq  x0, x0, 8
      EncB(2, 0, 1, 1),                  \* bne  x1, x0, 2
      EncB(8, 0, 1, 4),                  \* blt  x1, x0, 8
      EncB(Neg(4, 13), 0, 1, 5),         \* bge  x1, x0, -4
      EncU(524288, 1, 55),               \* lui  x1, 0x80000
      EncU(1, 0, 55),                    \* lui  x0, 1
      EncU(1, 1, 23),                    \* auipc x1, 1
      EncU(1, 0, 23),                    \* auipc x0, 1
      EncJ(Neg(4, 21), 0),               \* jal  x0, -4
      EncJ(0, 0),                        \* jal  x0, 0
      EncJ(2, 1),                        \* jal  x1, 2
      EncI(0, 1, 0, 0, 103),             \* jalr x0, 0(x1)
      EncI(3, 1, 0, 1, 103),             \* jalr x1, 3(x1)
      W(0, 115),                         \* ecall
      Enc(1, 1, 1, 0, 2, 51),            \* mul  x2, x1, x1
      EncB(8, 0, 0, 2) }                 \* branch, funct3 = 2

\* The images: ProgLen palette words, as the little-endian bytes of a raw
\* binary file (or of the assembler's output), byte i at index i.
Images ==
    { [i \in 0 .. 4 * ProgLen - 1 |-> le_byte(ws[i \div 4], i % 4)] :
        ws \in [0 .. ProgLen - 1 -> Palette] }

\* Cpu::load_program: copy data to mem[addr ..]; panics when it does not fit
\* (no image of the model is that large).
load_program(mem, data, addr) ==
    [i \in DOMAIN mem |->
        IF addr <= i /\ i < addr + Cardinality(DOMAIN data) THEN data[i - addr] ELSE mem[i]]

\* Cpu::new: registers and pc zero, memory zero-filled.
NewCpu ==
    [regs |-> [r \in 0 .. NREGS - 1 |-> Zero32],
     pc |-> Zero32,
     mem |-> [i \in 0 .. MemSize - 1 |-> 0]]

\* ------------------------------------------------------ assembler.rs

\* A source is a sequence of lines, a line what `trim` leaves of it:
\*   blank or comment ('#' first), a label line (':' last), or an
\*   instruction line, whose whitespace-separated parts are the mnemonic op
\*   and the operand tokens args.
\* A token is the text of one operand, a trailing ',' included:
\*   "reg"  x<n>, n a decimal u32         "xword" x followed by no number
\*   "num"  a decimal i32 v               "hex"   0x<digits>, value v
\*   "sym"  any other word, name          "big"   a decimal outside i32
\*   "mem"  <v>(x<n>), v decimal          "mem0"  (x<n>), no offset
\* A label's name is a "sym" word.
Tok(t, n, v, name) == [t |-> t, n |-> n, v |-> v, name |-> name]
Reg(n) == Tok("reg", n, 0, "")
Num(v) == Tok("num", 0, v, "")
Hex(v) == Tok("hex", 0, v, "")
Sym(name) == Tok("sym", 0, 0, name)
Mem(v, n) == Tok("mem", n, v, "")
Mem0(n) == Tok("mem0", n, 0, "")
\* The words of a trailing comment: "#", a word, a word whose last character
\* is ':'.
Hash == Tok("hash", 0, 0, "#")
Word(name) == Tok("word", 0, 0, name)
WordColon(name) == Tok("wordcolon", 0, 0, name)

Line(kind, name, op, args) == [kind |-> kind, name |-> name, op |-> op, args |-> args]
Inst(op, args) == Line("inst", "", op, args)
Label(name) == Line("label", name, "", <<>>)
Comment == Line("comment", "", "", <<>>)
Blank == Line("blank", "", "", <<>>)

\* Result<u32, String>, or the panic of an index out of range.
AsmOk(w) == [tag |-> "Ok", val |-> w, msg |-> ""]
AsmErr(m) == [tag |-> "Err", val |-> Zero32, msg |-> m]
AsmPanic == [tag |-> "Panic", val |-> Zero32, msg |-> "index out of bounds"]

\* `v as u32` for an i32 v: the two's complement bit pattern.
ToU32(v) == W((v \div 65536) % 65536, v % 65536)

\* `a | b | ...` of a sequence of u32.
RECURSIVE OrAll(_)
OrAll(ws) == IF Len(ws) = 0 THEN Zero32 ELSE BitOr(Head(ws), OrAll(Tail(ws)))

\* fn parse_reg: "x" then any u32; the number is not compared with 32.
parse_reg(tok) ==
    CASE tok.t = "reg" -> AsmOk(FromNat(tok.n))
      [] tok.t = "xword" -> AsmErr("invalid register")
      [] OTHER -> AsmErr("invalid register format")

\* fn parse_imm: 0x<hex> as u32, or a decimal i32 cast to u32.
parse_imm(tok) ==
    CASE tok.t = "num" -> AsmOk(ToU32(tok.v))
      [] tok.t = "hex" -> AsmOk(FromNat(tok.v))
      [] OTHER -> AsmErr("invalid immediate")

\* fn parse_mem_operand: offset(reg); the result's val is the offset, reg
\* the register number.
parse_mem_operand(tok) ==
    CASE tok.t = "mem"  -> [tag |-> "Ok", val |-> ToU32(tok.v), msg |-> "", reg |-> FromNat(tok.n)]
      [] tok.t = "mem0" -> [tag |-> "Ok", val |-> Zero32, msg |-> "", reg |-> FromNat(tok.n)]
      [] OTHER -> [tag |-> "Err", val |-> Zero32, msg |-> "invalid memory operand", reg |-> Zero32]

\* The (funct3, funct7) of assemble_rtype.
rtype_functs(op) ==
    CASE op = "add" -> <<0, 0>>
      [] op = "sub" -> <<0, 32>>
      [] op = "and" -> <<7, 0>>
      [] op = "or"  -> <<6, 0>>
      [] op = "xor" -> <<4, 0>>
      [] op = "sll" -> <<1, 0>>
      [] op = "srl" -> <<5, 0>>
      [] op = "sra" -> <<5, 32>>

\* Assembler::assemble_rtype.
assemble_rtype(op, args) ==
    IF Len(args) < 3 THEN AsmErr("not enough args")
    ELSE LET rd == parse_reg(args[1])
             rs1 == parse_reg(args[2])
             rs2 == parse_reg(args[3])
             f == rtype_functs(op)
         IN  IF rd.tag # "Ok" THEN rd
             ELSE IF rs1.tag # "Ok" THEN rs1
             ELSE IF rs2.tag # "Ok" THEN rs2
             ELSE AsmOk(OrAll(<<Shl(FromNat(f[2]), 25), Shl(rs2.val, 20), Shl(rs1.val, 15),
                                Shl(FromNat(f[1]), 12), Shl(rd.val, 7), FromNat(51)>>))

\* The funct3 of assemble_itype.
itype_funct3(op) ==
    CASE op = "addi" -> 0
      [] op = "andi" -> 7
      [] op = "ori"  -> 6
      [] op = "xori" -> 4
      [] op = "slli" -> 1
      [] op = "srli" -> 5
      [] op = "srai" -> 5

\* Assembler::assemble_itype: imm & 0xfff, for srai | 0x400.
assemble_itype(op, args) ==
    IF Len(args) < 3 THEN AsmErr("not enough args")
    ELSE LET rd == parse_reg(args[1])
             rs1 == parse_reg(args[2])
             pi == parse_imm(args[3])
             imm12 == BitAnd(pi.val, FromNat(4095))
             imm == IF op = "srai" THEN BitOr(imm12, FromNat(1024)) ELSE imm12
         IN  IF rd.tag # "Ok" THEN rd
             ELSE IF rs1.tag # "Ok" THEN rs1
             ELSE IF pi.tag # "Ok" THEN pi
             ELSE AsmOk(OrAll(<<Shl(imm, 20), Shl(rs1.val, 15),
                                Shl(FromNat(itype_funct3(op)), 12), Shl(rd.val, 7),
                                FromNat(19)>>))

\* Assembler::assemble_load.
assemble_load(args) ==
    IF Len(args) < 2 THEN AsmErr("not enough args")
    ELSE LET rd == parse_reg(args[1])
             mo == parse_mem_operand(args[2])
         IN  IF rd.tag # "Ok" THEN rd
             ELSE IF mo.tag # "Ok" THEN AsmErr(mo.msg)
             ELSE AsmOk(OrAll(<<Shl(BitAnd(mo.val, FromNat(4095)), 20), Shl(mo.reg, 15),
                                Shl(FromNat(2), 12), Shl(rd.val, 7), FromNat(3)>>))

\* Assembler::assemble_store.
\* assemble_store with rs2 and the base register in each other's field.
assemble_store_swapped(args) ==
    IF Len(args) < 2 THEN AsmErr("not enough args")
    ELSE LET rs2 == parse_reg(args[1])
             mo == parse_mem_operand(args[2])
             imm_low == BitAnd(mo.val, FromNat(31))
             imm_high == BitAnd(Shr(mo.val, 5), FromNat(127))
         IN  IF rs2.tag # "Ok" THEN rs2
             ELSE IF mo.tag # "Ok" THEN AsmErr(mo.msg)
             ELSE AsmOk(OrAll(<<Shl(imm_high, 25), Shl(mo.reg, 20), Shl(rs2.val, 15),
                                Shl(FromNat(2), 12), Shl(imm_low, 7), FromNat(35)>>))

assemble_store(args) ==
    IF Len(args) < 2 THEN AsmErr("not enough args")
    ELSE LET rs2 == parse_reg(args[1])
             mo == parse_mem_operand(args[2])
             imm_low == BitAnd(mo.val, FromNat(31))
             imm_high == BitAnd(Shr(mo.val, 5), FromNat(127))
         IN  IF rs2.tag # "Ok" THEN rs2
             ELSE IF mo.tag # "Ok" THEN AsmErr(mo.msg)
             ELSE AsmOk(OrAll(<<Shl(imm_high, 25), Shl(rs2.val, 20), Shl(mo.reg, 15),
                                Shl(FromNat(2), 12), Shl(imm_low, 7), FromNat(35)>>))

\* `self.labels.get(arg)` or else parse_imm(arg): the target of a branch or jal.
\* branch_target taking a label for the address of the line after it.
branch_target_next(tok, labels) ==
    IF tok.t = "sym" /\ tok.name \in DOMAIN labels
    THEN AsmOk(wrapping_add(labels[tok.name], FromNat(4)))
    ELSE parse_imm(tok)

branch_target(tok, labels) ==
    IF tok.t = "sym" /\ tok.name \in DOMAIN labels
    THEN AsmOk(labels[tok.name])
    ELSE parse_imm(tok)

\* The funct3 of assemble_branch.
branch_funct3(op) ==
    CASE op = "beq" -> 0
      [] op = "bne" -> 1
      [] op = "blt" -> 4
      [] op = "bge" -> 5

\* Assembler::assemble_branch: offset = target - pc, cut into the b-type fields.
assemble_branch(op, args, pc, labels) ==
    IF Len(args) < 3 THEN AsmErr("not enough args")
    ELSE LET rs1 == parse_reg(args[1])
             rs2 == parse_reg(args[2])
             target == branch_target(args[3], labels)
             offset == wrapping_sub(target.val, pc)
             imm_12 == FromNat(Bits(offset, 12, 1))
             imm_11 == FromNat(Bits(offset, 11, 1))
             imm_10_5 == FromNat(Bits(offset, 5, 6))
             imm_4_1 == FromNat(Bits(offset, 1, 4))
         IN  IF rs1.tag # "Ok" THEN rs1
             ELSE IF rs2.tag # "Ok" THEN rs2
             ELSE IF target.tag # "Ok" THEN target
             ELSE AsmOk(OrAll(<<Shl(imm_12, 31), Shl(imm_10_5, 25), Shl(rs2.val, 20),
                                Shl(rs1.val, 15), Shl(FromNat(branch_funct3(op)), 12),
                                Shl(imm_4_1, 8), Shl(imm_11, 7), FromNat(99)>>))

\* Assembler::assemble_lui and assemble_auipc: (imm & 0xfffff) << 12.  lui
\* tests `args.is_empty()` only, so with one operand `args[1]` panics.
assemble_utype(args, opcode, min_args) ==
    IF Len(args) < min_args THEN AsmErr("not enough args")
    ELSE LET rd == parse_reg(args[1])
         IN  IF rd.tag # "Ok" THEN rd
             ELSE IF Len(args) < 2 THEN AsmPanic
             ELSE LET pi == parse_imm(args[2])
                      imm == W(pi.val.hi % 16, pi.val.lo)
                  IN  IF pi.tag # "Ok" THEN pi
                      ELSE AsmOk(OrAll(<<Shl(imm, 12), Shl(rd.val, 7), FromNat(opcode)>>))

assemble_lui(args) == assemble_utype(args, 55, 1)
assemble_auipc(args) == assemble_utype(args, 23, 2)

\* Assembler::assemble_jal: offset = target - pc, cut into the j-type fields.
assemble_jal(args, pc, labels) ==
    IF Len(args) < 2 THEN AsmErr("not enough args")
    ELSE LET rd == parse_reg(args[1])
             target == branch_target(args[2], labels)
             offset == wrapping_sub(target.val, pc)
             imm_20 == FromNat(Bits(offset, 20, 1))
             imm_10_1 == FromNat(Bits(offset, 1, 10))
             imm_11 == FromNat(Bits(offset, 11, 1))
             imm_19_12 == FromNat(Bits(offset, 12, 8))
         IN  IF rd.tag # "Ok" THEN rd
             ELSE IF target.tag # "Ok" THEN target
             ELSE AsmOk(OrAll(<<Shl(imm_20, 31), Shl(imm_19_12, 12), Shl(imm_11, 20),
                                Shl(imm_10_1, 21), Shl(rd.val, 7), FromNat(111)>>))

\* Assembler::assemble_jalr.
assemble_jalr(args) ==
    IF Len(args) < 2 THEN AsmErr("not enough args")
    ELSE LET rd == parse_reg(args[1])
             mo == parse_mem_operand(args[2])
         IN  IF rd.tag # "Ok" THEN rd
             ELSE IF mo.tag # "Ok" THEN AsmErr(mo.msg)
             ELSE AsmOk(OrAll(<<Shl(BitAnd(mo.val, FromNat(4095)), 20), Shl(mo.reg, 15),
                                Shl(rd.val, 7), FromNat(103)>>))

\* Assembler::assemble_instruction: the match on the mnemonic.
assemble_instruction(line, pc, labels) ==
    LET op == line.op
        args == line.args
    IN  CASE op \in {"add", "sub", "and", "or", "xor", "sll", "srl", "sra"} ->
                assemble_rtype(op, args)
          [] op \in {"addi", "andi", "ori", "xori", "slli", "srli", "srai"} ->
                assemble_itype(op, args)
          [] op = "lw" -> assemble_load(args)
          [] op = "sw" -> assemble_store(args)
          [] op \in {"beq", "bne", "blt", "bge"} -> assemble_branch(op, args, pc, labels)
          [] op = "lui" -> assemble_lui(args)
          [] op = "auipc" -> assemble_auipc(args)
          [] op = "jal" -> assemble_jal(args, pc, labels)
          [] op = "jalr" -> assemble_jalr(args)
          [] OTHER -> AsmErr("unknown instruction")

\* `line.ends_with(':')` on a trimmed line: a label line, or any line whose
\* last word ends with ':'.
ends_with_colon(l) ==
    \/ l.kind = "label"
    \/ l.kind = "inst" /\ Len(l.args) > 0 /\ l.args[Len(l.args)].t = "wordcolon"

\* `line[..line.len()-1]`: the text in front of the last ':', the key under
\* which the line enters the labels.  It holds blanks when the line has
\* operands, so no operand ever equals it.
label_text(l) ==
    IF l.kind = "label" THEN l.name
    ELSE l.op \o " .. " \o l.args[Len(l.args)].name

\* Pass 1 of assemble: blank and comment lines are skipped, a line ending
\* with ':' inserts (its text, pc) into self.labels, any other line is kept
\* and takes 4 bytes.  st = [labels, lines, pc].

\* Pass 1 with `pc += 4` for a label line too.
RECURSIVE pass1_labels_take_space(_, _)
pass1_labels_take_space(src, st) ==
    IF Len(src) = 0 THEN st
    ELSE LET l == Head(src)
         IN  CASE l.kind \in {"blank", "comment"} -> pass1_labels_take_space(Tail(src), st)
               [] ends_with_colon(l) ->
                     pass1_labels_take_space(Tail(src),
                           [st EXCEPT !.labels = [k \in DOMAIN @ \cup {label_text(l)} |->
                                                    IF k = label_text(l) THEN st.pc ELSE @[k]],
                                      !.pc = wrapping_add(@, FromNat(4))])
               [] OTHER ->
                     pass1_labels_take_space(Tail(src),
                           [st EXCEPT !.lines = Append(@, l),
                                      !.pc = wrapping_add(@, FromNat(4))])

\* Pass 1 of assemble.
RECURSIVE pass1(_, _)
pass1(src, st) ==
    IF Len(src) = 0 THEN st
    ELSE LET l == Head(src)
         IN  CASE l.kind \in {"blank", "comment"} -> pass1(Tail(src), st)
               [] ends_with_colon(l) ->
                     pass1(Tail(src),
                           [st EXCEPT !.labels = [k \in DOMAIN @ \cup {label_text(l)} |->
                                                    IF k = label_text(l) THEN st.pc ELSE @[k]]])
               [] OTHER ->
                     pass1(Tail(src), [st EXCEPT !.lines = Append(@, l),
                                                 !.pc = wrapping_add(@, FromNat(4))])

\* Pass 2 of assemble: each kept line through assemble_instruction; the first
\* failure ends the call and the code so far is dropped.
RECURSIVE pass2(_, _, _, _)
pass2(lines, labels, current_pc, code) ==
    IF Len(lines) = 0 THEN [tag |-> "Ok", code |-> code, msg |-> ""]
    ELSE LET r == assemble_instruction(Head(lines), current_pc, labels)
         IN  IF r.tag # "Ok" THEN [tag |-> r.tag, code |-> <<>>, msg |-> r.msg]
             ELSE pass2(Tail(lines), labels, wrapping_add(current_pc, FromNat(4)),
                        Append(code, r.val))

\* Assembler::assemble: the labels the call leaves in the Assembler, and its
\* result: Ok with the words of the code (the byte vector is their
\* little-endian bytes), or Err, or a panic.
assemble(labels, source) ==
    LET st == pass1(source, [labels |-> labels, lines |-> <<>>, pc |-> Zero32])
    IN  [labels |-> st.labels, out |-> pass2(st.lines, st.labels, Zero32, <<>>)]

NoOut == [tag |-> "None", code |-> <<>>, msg |-> ""]

\* Assembler::new: no labels; nothing assembled yet (n counts the calls of
\* assemble).
NewAssembler == [labels |-> <<>>, src |-> <<>>, out |-> NoOut, n |-> 0]

\* --------------------------------------------------- the state machine

VARIABLES
    cpu,         \* Cpu: regs, pc, mem
    halted,      \* Executor.halted
    metrics,     \* Metrics
    result,      \* what the last call of step yielded
    mode,        \* "idle": the caller's turn; "run": inside run's loop;
                 \* "dead": a panic has unwound the caller
    steps,       \* run's local `steps`
    max_steps,   \* run's argument
    run_result,  \* what the last call of run returned
    run_calls,   \* step calls made by the current (or last) call of run
    calls,       \* step calls made so far
    retired,     \* step calls so far that returned Ok
    prev,        \* cpu, metrics and halted as the last call of step found them
    twin,        \* a second Cpu, Executor and Metrics given the same calls
    asm,         \* the Assembler (its labels) and what its last call was given
                 \* and returned
    probe,       \* the last direct write_word / read_word pair on the Cpu
    dec,         \* a word given to Instruction::decode and what it returned
    dbg,         \* the Debugger: breakpoints, where its loops stand
    run_base     \* metrics.inst_count when run was last called

\* probe.read is what read_word returned, probe.byte the byte at addr just
\* after the write.
\* The variables only the assembler, the paired run and the direct memory
\* calls write.
aux == <<twin, asm, probe, dec, dbg>>

vars == <<cpu, halted, metrics, result, mode, steps, max_steps, run_result,
          run_calls, calls, retired, prev, twin, asm, probe, dec, dbg, run_base>>

\* No second machine, no direct memory call yet.
NoTwin == [cpu |-> NewCpu, halted |-> FALSE, metrics |-> NewMetrics, result |-> NoResult]
NoProbe == [tag |-> "None", addr |-> Zero32, val |-> Zero32, read |-> Zero32, byte |-> 0]
\* No direct call of decode yet; no Debugger.
NoDecode == [tag |-> "None", raw |-> Zero32, inst |-> Instruction("Unknown", 0, 0, 0, Zero32)]
NoDebugger == [at |-> "off", breakpoints |-> {}, stop |-> "none", trail |-> <<>>]

\* main.rs run_file: Cpu::new, Executor::new, Metrics::new, load_program at
\* addr = 0, cpu.pc = addr.
Init ==
    /\ \E data \in Images : cpu = [NewCpu EXCEPT !.mem = load_program(@, data, 0)]
    /\ halted = FALSE
    /\ metrics = NewMetrics
    /\ result = NoResult
    /\ mode = "idle"
    /\ steps = 0
    /\ max_steps = 0
    /\ run_result = NoRun
    /\ run_calls = 0
    /\ calls = 0
    /\ retired = 0
    /\ prev = [cpu |-> cpu, metrics |-> metrics, halted |-> halted]
    /\ twin = NoTwin
    /\ asm = NewAssembler
    /\ probe = NoProbe
    /\ dec = NoDecode
    /\ dbg = NoDebugger
    /\ run_base = 0

IsOk(r) == r.tag = "Ok"

\* A direct call of Executor::step (a test, the debugger's step).
StepCall ==
    /\ mode = "idle"
    /\ calls < MaxCalls
    /\ \E o \in {step(cpu, halted, metrics)} :
           /\ cpu' = o.cpu
           /\ metrics' = o.metrics
           /\ result' = o.res
           /\ mode' = IF o.res.tag = "Panic" THEN "dead" ELSE "idle"
           /\ retired' = retired + (IF IsOk(o.res) THEN 1 ELSE 0)
    /\ calls' = calls + 1
    /\ prev' = [cpu |-> cpu, metrics |-> metrics, halted |-> halted]
    /\ UNCHANGED <<halted, steps, max_steps, run_result, run_calls>>
    /\ UNCHANGED aux
    /\ UNCHANGED run_base

\* A call of Executor::run(cpu, metrics, m) enters the loop with steps = 0.
RunCall ==
    /\ mode = "idle"
    /\ \E m \in 0 .. MaxRun :
        /\ calls + m <= MaxCalls
        /\ max_steps' = m
    /\ mode' = "run"
    /\ steps' = 0
    /\ run_calls' = 0
    /\ run_result' = NoRun
    /\ UNCHANGED <<cpu, halted, metrics, result, calls, retired, prev>>
    /\ UNCHANGED aux
    /\ run_base' = metrics.inst_count

\* One iteration of run's loop.
RunLoop ==
    /\ mode = "run"
    /\ run_cond(steps, max_steps)
    /\ \E it \in {run_iter(cpu, halted, metrics, steps)} :
           /\ cpu' = it.cpu
           /\ metrics' = it.metrics
           /\ result' = it.res
           /\ halted' = it.halted
           /\ steps' = it.steps
           /\ run_result' = it.ret
           /\ mode' = CASE it.ret.tag = "None" -> "run"
                        [] it.ret.tag = "Panic" -> "dead"
                        [] OTHER -> "idle"
           /\ retired' = retired + (IF IsOk(it.res) THEN 1 ELSE 0)
    /\ calls' = calls + 1
    /\ run_calls' = run_calls + 1
    /\ prev' = [cpu |-> cpu, metrics |-> metrics, halted |-> halted]
    /\ UNCHANGED max_steps
    /\ UNCHANGED aux
    /\ UNCHANGED run_base

\* The loop condition fails: run returns Ok(steps).
RunReturn ==
    /\ mode = "run"
    /\ ~run_cond(steps, max_steps)
    /\ run_result' = run_ok(steps)
    /\ mode' = "idle"
    /\ UNCHANGED <<cpu, halted, metrics, result, steps, max_steps, run_calls, calls,
                   retired, prev>>
    /\ UNCHANGED aux
    /\ UNCHANGED run_base

Next == StepCall \/ RunCall \/ RunLoop \/ RunReturn

Spec == Init /\ [][Next]_vars

TypeOK ==
    /\ cpu.regs \in [0 .. NREGS - 1 -> U32]
    /\ cpu.pc \in U32
    /\ halted \in BOOLEAN
    /\ mode \in {"idle", "run", "dead"}

\* ------------------------------------ unit tests (integration_test.rs)

\* Everything but the Cpu as a fresh test has it: Executor::new,
\* Metrics::new, no call made yet.
Fresh ==
    /\ halted = FALSE
    /\ metrics = NewMetrics
    /\ result = NoResult
    /\ mode = "idle"
    /\ steps = 0
    /\ max_steps = 0
    /\ run_result = NoRun
    /\ run_calls = 0
    /\ calls = 0
    /\ retired = 0
    /\ prev = [cpu |-> cpu, metrics |-> metrics, halted |-> halted]

\* The values a test gives to x1 and x2 (`cpu.regs[1] = ...`) before it steps.
UnitValues ==
    { Zero32, FromNat(1), FromNat(4), FromNat(8), FromNat(13), FromNat(36), FromNat(255),
      W(32768, 0), W(57005, 48879), Ones32 }

\* The instruction words a test writes at address 0 (and 4).
UnitPrograms ==
    { <<EncS(0, 2, 1, 2), EncI(0, 1, 2, 3, 3)>>,   \* sw x2, 0(x1); lw x3, 0(x1)
      <<Enc(0, 2, 1, 1, 3, 51)>>,                  \* sll  x3, x1, x2
      <<Enc(0, 2, 1, 5, 3, 51)>>,                  \* srl  x3, x1, x2
      <<Enc(32, 2, 1, 5, 3, 51)>>,                 \* sra  x3, x1, x2
      <<Enc(32, 1, 2, 5, 3, 51)>>,                 \* sra  x3, x2, x1
      <<EncI(4, 1, 1, 3, 19)>>,                    \* slli x3, x1, 4
      <<EncI(36, 1, 1, 3, 19)>>,                   \* slli, imm field 36
      <<EncI(Neg(28, 12), 1, 1, 3, 19)>>,          \* slli, imm field -28
      <<EncI(31, 1, 5, 3, 19)>>,                   \* srli x3, x1, 31
      <<EncI(1024 + 4, 1, 5, 3, 19)>>,             \* srai x3, x1, 4
      <<EncI(1024 + 31, 2, 5, 3, 19)>>,            \* srai x3, x2, 31
      <<EncI(8, 2, 0, 1, 103)>>,                   \* jalr x1, 8(x2)
      <<EncI(1, 1, 0, 1, 103)>>,                   \* jalr x1, 1(x1)
      <<EncI(Neg(1, 12), 2, 0, 2, 103)>>,          \* jalr x2, -1(x2)
      <<EncI(2, 1, 0, 0, 103)>>,                   \* jalr x0, 2(x1)
      <<EncI(4, 1, 5, 3, 19)>>,                    \* srli x3, x1, 4
      <<EncB(8, 2, 1, 0)>>,                        \* beq  x1, x2, 8
      <<EncB(8, 2, 1, 1)>>,                        \* bne  x1, x2, 8
      <<EncB(8, 2, 1, 4)>>,                        \* blt  x1, x2, 8
      <<EncB(8, 2, 1, 5)>>,                        \* bge  x1, x2, 8
      <<EncB(Neg(4, 13), 2, 1, 4)>>,               \* blt  x1, x2, -4
      <<EncI(0, 0, 0, 0, 19), EncB(Neg(4, 13), 2, 1, 0)>>,   \* nop; beq x1, x2, -4
      <<EncI(0, 0, 0, 0, 19), EncB(Neg(4, 13), 1, 2, 5)>>,   \* nop; bge x2, x1, -4
      <<EncB(4, 2, 1, 1), EncB(Neg(4, 13), 2, 1, 0)>> }      \* bne x1, x2, 4; beq x1, x2, -4

\* The little-endian bytes of a sequence of words, byte i at index i.
WordBytes(ws) == [i \in 0 .. 4 * Len(ws) - 1 |-> le_byte(ws[(i \div 4) + 1], i % 4)]

\* A test: Cpu::new, x1 and x2 set, the words written from address 0.
UnitInit ==
    /\ \E ws \in UnitPrograms, v1 \in UnitValues, v2 \in UnitValues :
          cpu = [regs |-> [NewCpu.regs EXCEPT ![1] = v1, ![2] = v2],
                 pc |-> Zero32,
                 mem |-> load_program(NewCpu.mem, WordBytes(ws), 0)]
    /\ Fresh
    /\ twin = NoTwin
    /\ asm = NewAssembler
    /\ probe = NoProbe
    /\ dec = NoDecode
    /\ dbg = NoDebugger
    /\ run_base = 0

\* The addresses and values of a direct write_word call.
ProbeAddrs == { Zero32, FromNat(13), FromNat(MemSize - 4), FromNat(MemSize - 3), Ones32, W(1, 0) }
ProbeValues == { W(57005, 48879), W(258, 772) }

\* A test's `cpu.write_word(a, v)` followed by `cpu.read_word(a)`, made while
\* it sets the machine up, before it steps; an out-of-bounds a panics in
\* write_word.
WriteWordCall ==
    /\ mode = "idle"
    /\ calls = 0
    /\ probe.tag = "None"
    /\ \E a \in ProbeAddrs, v \in ProbeValues :
          IF in_bounds(mem_len(cpu.mem), a)
          THEN \E m \in {write_word(cpu.mem, a, v)} :
                  /\ cpu' = [cpu EXCEPT !.mem = m]
                  /\ probe' = [tag |-> "Ok", addr |-> a, val |-> v,
                               read |-> read_word(m, a), byte |-> m[ByteAt(a, 0)]]
                  /\ mode' = "idle"
          ELSE /\ cpu' = cpu
               /\ probe' = [tag |-> "Panic", addr |-> a, val |-> v, read |-> Zero32, byte |-> 0]
               /\ mode' = "dead"
    /\ UNCHANGED <<halted, metrics, result, steps, max_steps, run_result, run_calls,
                   calls, retired, prev, twin, asm, dec, dbg>>
    /\ UNCHANGED run_base

UnitNext == StepCall \/ WriteWordCall

UnitSpec == UnitInit /\ [][UnitNext]_vars

\* --------------------------------------------- decoding single words

\* The fields the words are built from: every opcode of the decoder and
\* three it does not know, every funct3, funct7 with and without bit 5 (bit
\* 30 of the word), registers at both ends.
DecodeOpcodes == {51, 19, 3, 35, 99, 55, 23, 111, 103, 0, 115, 127}
DecodeFunct7 == {0, 1, 32, 33, 64, 127}
DecodeRegs == {0, 1, 31}
DecodeWords ==
    {Enc(f7, rs2, rs1, f3, rd, op) :
        f7 \in DecodeFunct7, rs2 \in {0, 31}, rs1 \in {0, 31}, f3 \in 0 .. 7,
        rd \in DecodeRegs, op \in DecodeOpcodes}

\* A test: Cpu::new with the word written at address 0, PC = 0.
DecodeInit ==
    /\ \E w \in DecodeWords :
          /\ cpu = [NewCpu EXCEPT !.mem = load_program(@, WordBytes(<<w>>), 0)]
          /\ dec = [NoDecode EXCEPT !.raw = w]
    /\ Fresh
    /\ twin = NoTwin
    /\ asm = NewAssembler
    /\ probe = NoProbe
    /\ dbg = NoDebugger
    /\ run_base = 0

\* A call of Instruction::decode(raw).
DecodeCall ==
    /\ dec.tag = "None"
    /\ dec' = [dec EXCEPT !.tag = "Ok", !.inst = decode(dec.raw)]
    /\ UNCHANGED <<cpu, halted, metrics, result, mode, steps, max_steps, run_result,
                   run_calls, calls, retired, prev, twin, asm, probe, dbg>>
    /\ UNCHANGED run_base

DecodeNext == DecodeCall \/ StepCall

DecodeSpec == DecodeInit /\ [][DecodeNext]_vars

\* ------------------------------------- two machines, the same calls

\* What the Metrics of the second machine hold at the start: its fields are
\* public, any counts can be there.
TwinMetrics ==
    { [inst_count |-> 7, inst_mix |-> ("Add" :> 3 @@ "Unknown" :> 9),
       branch_taken |-> 2, branch_not_taken |-> 5],
      [inst_count |-> 1, inst_mix |-> ("Jal" :> 1),
       branch_taken |-> 0, branch_not_taken |-> 0] }

\* Two machines with the same image, registers, PC and halt flag (set by an
\* earlier run, the Cpu reset and loaded again, or not), and different Metrics.
PairInit ==
    /\ \E data \in Images : cpu = [NewCpu EXCEPT !.mem = load_program(@, data, 0)]
    /\ halted \in BOOLEAN
    /\ metrics = NewMetrics
    /\ result = NoResult
    /\ mode = "idle"
    /\ steps = 0
    /\ max_steps = 0
    /\ run_result = NoRun
    /\ run_calls = 0
    /\ calls = 0
    /\ retired = 0
    /\ prev = [cpu |-> cpu, metrics |-> metrics, halted |-> halted]
    /\ \E m2 \in TwinMetrics :
          twin = [cpu |-> cpu, halted |-> halted, metrics |-> m2, result |-> NoResult]
    /\ asm = NewAssembler
    /\ probe = NoProbe
    /\ dec = NoDecode
    /\ dbg = NoDebugger
    /\ run_base = 0

\* Executor::step called on both machines.
PairStep ==
    /\ mode = "idle"
    /\ calls < MaxCalls
    /\ \E o \in {step(cpu, halted, metrics)},
          o2 \in {step(twin.cpu, twin.halted, twin.metrics)} :
           /\ cpu' = o.cpu
           /\ metrics' = o.metrics
           /\ result' = o.res
           /\ mode' = IF o.res.tag = "Panic" THEN "dead" ELSE "idle"
           /\ retired' = retired + (IF IsOk(o.res) THEN 1 ELSE 0)
           /\ twin' = [twin EXCEPT !.cpu = o2.cpu, !.metrics = o2.metrics, !.result = o2.res]
    /\ calls' = calls + 1
    /\ prev' = [cpu |-> cpu, metrics |-> metrics, halted |-> halted]
    /\ UNCHANGED <<halted, steps, max_steps, run_result, run_calls, asm, probe, dec, dbg>>
    /\ UNCHANGED run_base

PairNext == PairStep

PairSpec == PairInit /\ [][PairNext]_vars

\* ------------------------------------------- assembling (asm_test.rs)

RTypeOps == {"add", "sub", "and", "or", "xor", "sll", "srl", "sra"}
ITypeOps == {"addi", "andi", "ori", "xori", "slli", "srli", "srai"}
ShiftOps == {"slli", "srli", "srai"}
BranchOps == {"beq", "bne", "blt", "bge"}
MemOps == {"lw", "sw", "jalr"}
UTypeOps == {"lui", "auipc"}

\* The register numbers, immediates and targets the sources are written with:
\* in and out of x0..x31, in and out of each signed field.
AsmRegs == {0, 5, 31, 32}
ImmI == {-2049, -2048, -1, 0, 4, 31, 32, 36, 1024, 2047, 2048, 4100}
ImmU == {-524289, -524288, -1, 0, 1, 524287, 1048575, 1048576}
ImmB == {-4098, -4096, -8, 0, 5, 8, 4094, 4096}
ImmJ == {-1048578, -1048576, -4, 0, 2, 8, 1048574, 1048576}

\* The sources of one instruction line.
LineSources ==
    {<<Inst(op, <<Reg(a), Reg(b), Reg(c)>>)>> :
        op \in RTypeOps, a \in AsmRegs, b \in AsmRegs, c \in AsmRegs}
    \cup {<<Inst(op, <<Reg(a), Reg(b), Num(v)>>)>> :
            op \in ITypeOps, a \in AsmRegs, b \in AsmRegs, v \in ImmI}
    \cup {<<Inst(op, <<Reg(a), Mem(v, b)>>)>> :
            op \in MemOps, a \in AsmRegs, b \in AsmRegs, v \in ImmI}
    \cup {<<Inst(op, <<Reg(a), Mem0(b)>>)>> : op \in MemOps, a \in AsmRegs, b \in AsmRegs}
    \cup {<<Inst(op, <<Reg(a), Num(v)>>)>> : op \in UTypeOps, a \in AsmRegs, v \in ImmU}
    \cup {<<Inst(op, <<Reg(a), Hex(256)>>)>> : op \in UTypeOps, a \in AsmRegs}
    \cup {<<Inst(op, <<Reg(a), Reg(b), Num(v)>>)>> :
            op \in BranchOps, a \in AsmRegs, b \in AsmRegs, v \in ImmB}
    \cup {<<Inst("jal", <<Reg(a), Num(v)>>)>> : a \in AsmRegs, v \in ImmJ}

\* The loop program of scenario S5, counting to k.
ProgLoop(k) ==
    << Inst("addi", <<Reg(1), Reg(0), Num(0)>>),
       Label("loop"),
       Inst("addi", <<Reg(1), Reg(1), Num(1)>>),
       Inst("addi", <<Reg(2), Reg(0), Num(k)>>),
       Inst("bne", <<Reg(1), Reg(2), Sym("loop")>>) >>

\* The source of test_with_labels, with a comment and a blank line.
ProgLabels ==
    << Blank,
       Inst("addi", <<Reg(1), Reg(0), Num(0)>>),
       Label("loop"),
       Comment,
       Inst("addi", <<Reg(1), Reg(1), Num(1)>>),
       Inst("beq", <<Reg(1), Reg(2), Sym("end")>>),
       Inst("jal", <<Reg(0), Sym("loop")>>),
       Label("end"),
       Inst("addi", <<Reg(3), Reg(0), Num(42)>>) >>

\* Forward references from the first line, a label at address 0.
ProgForward ==
    << Label("start"),
       Inst("jal", <<Reg(1), Sym("skip")>>),
       Inst("blt", <<Reg(5), Reg(0), Sym("skip")>>),
       Inst("bge", <<Reg(0), Reg(5), Sym("start")>>),
       Label("skip"),
       Inst("jal", <<Reg(0), Sym("start")>>) >>

\* Numeric targets on lines that are not at address 0.
ProgNumeric ==
    << Inst("addi", <<Reg(1), Reg(0), Num(1)>>),
       Inst("beq", <<Reg(0), Reg(0), Num(8)>>),
       Inst("jal", <<Reg(0), Num(0)>>) >>

\* A reference to a label the source does not define.
ProgUndefined ==
    << Inst("addi", <<Reg(1), Reg(1), Num(1)>>),
       Inst("bne", <<Reg(1), Reg(2), Sym("loop")>>) >>

\* lui with its register and nothing else.
ProgOneOperand == << Inst("lui", <<Reg(1)>>) >>

\* The source of test_comments.
ProgComments ==
    << Blank,
       Comment,
       Inst("addi", <<Reg(1), Reg(0), Num(10), Hash, Word("another"), Word("comment")>>),
       Comment,
       Inst("add", <<Reg(2), Reg(1), Reg(1)>>) >>

\* A trailing comment that ends with ':' in front of a loop.
ProgCommentColon ==
    << Inst("addi", <<Reg(1), Reg(0), Num(0), Hash, Word("start"), WordColon("here:")>>),
       Label("loop"),
       Inst("addi", <<Reg(1), Reg(1), Num(1)>>),
       Inst("bne", <<Reg(1), Reg(2), Sym("loop")>>) >>

\* A label defined twice.
ProgRedefine ==
    << Label("loop"),
       Inst("addi", <<Reg(1), Reg(1), Num(1)>>),
       Label("loop"),
       Inst("jal", <<Reg(0), Sym("loop")>>),
       Inst("beq", <<Reg(1), Reg(2), Sym("loop")>>) >>

ProgramSources ==
    {ProgLoop(5), ProgLabels, ProgForward, ProgNumeric, ProgUndefined, ProgOneOperand,
     ProgComments, ProgCommentColon, ProgRedefine}

\* One line of each mnemonic, and the trailing comments put behind it:
\* "#", "# another comment", "# x3 7", "# note todo:".
CommentBases ==
    {Inst(op, <<Reg(5), Reg(31), Reg(0)>>) : op \in RTypeOps}
    \cup {Inst(op, <<Reg(5), Reg(31), Num(4)>>) : op \in ITypeOps}
    \cup {Inst(op, <<Reg(5), Mem(4, 31)>>) : op \in MemOps}
    \cup {Inst(op, <<Reg(5), Num(1)>>) : op \in UTypeOps}
    \cup {Inst(op, <<Reg(5), Reg(31), Num(8)>>) : op \in BranchOps}
    \cup {Inst("jal", <<Reg(5), Num(8)>>)}
CommentTails ==
    { <<Hash>>,
      <<Hash, Word("another"), Word("comment")>>,
      <<Hash, Reg(3), Num(7)>>,
      <<Hash, Word("note"), WordColon("todo:")>> }
CommentSources == {<<[b EXCEPT !.args = @ \o t]>> : b \in CommentBases, t \in CommentTails}

\* The operands a mnemonic takes: rd, rs1, rs2 / rd, rs1, imm / rs1, rs2,
\* target, or two.
AllOps == RTypeOps \cup ITypeOps \cup BranchOps \cup MemOps \cup UTypeOps \cup {"jal"}
RequiredArgs(op) == IF op \in RTypeOps \cup ITypeOps \cup BranchOps THEN 3 ELSE 2

\* Lines with too few operands: each mnemonic with none, one and (where it
\* takes three) two registers, alone and behind a complete line.
ShortSources ==
    {<<Inst(op, SubSeq(<<Reg(5), Reg(31)>>, 1, n))>> :
        op \in AllOps, n \in 0 .. 1}
    \cup {<<Inst(op, <<Reg(5), Reg(31)>>)>> : op \in RTypeOps \cup ITypeOps \cup BranchOps}
    \cup {<<Inst("addi", <<Reg(1), Reg(0), Num(1)>>), Inst(op, <<Reg(5)>>)>> : op \in AllOps}

Sources == LineSources \cup ProgramSources \cup CommentSources \cup ShortSources

\* The sources given to an Assembler that has assembled before: the programs
\* and the commented lines (a line without a label operand assembles the same
\* on every Assembler).
LaterSources == ProgramSources \cup CommentSources

\* A test: Assembler::new, nothing else touched.
AsmInit ==
    /\ cpu = NewCpu
    /\ Fresh
    /\ twin = NoTwin
    /\ asm = NewAssembler
    /\ probe = NoProbe
    /\ dec = NoDecode
    /\ dbg = NoDebugger
    /\ run_base = 0

\* A call of Assembler::assemble(source).  The labels are the Assembler's
\* only field: while it has none it is as new, so a further call is taken
\* only on an Assembler that has labels.
AssembleCall ==
    /\ mode = "idle"
    /\ asm.n < MaxAssemble
    /\ asm.n = 0 \/ asm.labels # <<>>
    /\ \E src \in IF asm.n = 0 THEN Sources ELSE LaterSources :
          \E r \in {assemble(asm.labels, src)} :
              /\ asm' = [labels |-> r.labels, src |-> src, out |-> r.out, n |-> asm.n + 1]
              /\ mode' = IF r.out.tag = "Panic" THEN "dead" ELSE "idle"
    /\ UNCHANGED <<cpu, halted, metrics, result, steps, max_steps, run_result, run_calls,
                   calls, retired, prev, twin, probe, dec, dbg>>
    /\ UNCHANGED run_base

AsmNext == AssembleCall

AsmSpec == AsmInit /\ [][AsmNext]_vars

\* ----------------------------------------- scenario S5: assemble and run

\* The max_steps a scenario run is given.
ScenarioCaps == {3, 16, 17, 100}

\* The loop program assembled by a new Assembler, its bytes loaded at 0 into
\* a new Cpu, PC = 0.
ScenarioInit ==
    /\ \E k \in 1 .. MaxLoop :
          \E r \in {assemble(NewAssembler.labels, ProgLoop(k))} :
              /\ asm = [labels |-> r.labels, src |-> ProgLoop(k), out |-> r.out, n |-> 1]
              /\ cpu = [NewCpu EXCEPT !.mem = load_program(@, WordBytes(r.out.code), 0)]
    /\ Fresh
    /\ twin = NoTwin
    /\ probe = NoProbe
    /\ dec = NoDecode
    /\ dbg = NoDebugger
    /\ run_base = 0

\* The scenario's one call of Executor::run(cpu, metrics, max).
ScenarioRunCall ==
    /\ mode = "idle"
    /\ calls = 0
    /\ run_result = NoRun
    /\ \E m \in ScenarioCaps : max_steps' = m
    /\ mode' = "run"
    /\ steps' = 0
    /\ run_calls' = 0
    /\ UNCHANGED <<cpu, halted, metrics, result, run_result, calls, retired, prev>>
    /\ UNCHANGED aux
    /\ run_base' = metrics.inst_count

ScenarioNext == ScenarioRunCall \/ RunLoop \/ RunReturn

ScenarioSpec == ScenarioInit /\ [][ScenarioNext]_vars

\* ------------------------------------------------------ debugger.rs

\* Debugger::new followed by Debugger::run: no breakpoint, a new Executor,
\* the prompt shown.  at is "prompt" (run waits for a command), "loop" (inside
\* continue_exec) or "exit" (run has returned); stop is what the last command
\* reported ("breakpoint", "error" or nothing); trail holds the PCs of the
\* instructions the current or last continue stepped.
NewDebugger == [at |-> "prompt", breakpoints |-> {}, stop |-> "none", trail |-> <<>>]

\* One iteration of continue_exec with the breakpoint test after the step.
continue_iter_check_after(c, h, m, breakpoints) ==
    LET o == step(c, h, m)
    IN  [cpu |-> o.cpu, metrics |-> o.metrics, res |-> o.res, stepped |-> TRUE,
         ret |-> CASE o.res.tag = "Panic" -> "panic"
                   [] o.res.tag = "Err" -> "true"
                   [] OTHER -> IF o.cpu.pc \in breakpoints THEN "false" ELSE "loop"]

\* One iteration of the loop of continue_exec: the breakpoint test on cpu.pc
\* (`return false`), else the step and, on Err, `return true`.  ret is
\* "loop" when the loop goes on and "panic" when the step panicked.
continue_iter(c, h, m, breakpoints) ==
    IF c.pc \in breakpoints
    THEN [cpu |-> c, metrics |-> m, res |-> NoResult, stepped |-> FALSE, ret |-> "false"]
    ELSE LET o == step(c, h, m)
         IN  [cpu |-> o.cpu, metrics |-> o.metrics, res |-> o.res, stepped |-> TRUE,
              ret |-> CASE o.res.tag = "Panic" -> "panic"
                        [] o.res.tag = "Err" -> "true"
                        [] OTHER -> "loop"]

\* The programs debugged: the counting loop, a jump to itself, a branch over
\* a word into the zeros behind the program, a store that panics.
DebugPrograms ==
    { assemble(NewAssembler.labels, ProgLoop(2)).out.code,
      <<EncJ(0, 0)>>,
      <<EncI(1, 0, 0, 1, 19), EncB(8, 0, 0, 0), EncI(2, 0, 0, 1, 19)>>,
      <<EncI(1, 0, 0, 1, 19), EncS(Neg(1, 12), 1, 0, 2)>> }

\* The addresses given to `break`.
BreakAddrs == {Zero32, FromNat(4), FromNat(8), FromNat(12)}

\* main.rs debug_file: the program loaded at 0, PC = 0, Debugger::run entered.
DebugInit ==
    /\ \E ws \in DebugPrograms :
          cpu = [NewCpu EXCEPT !.mem = load_program(@, WordBytes(ws), 0)]
    /\ Fresh
    /\ twin = NoTwin
    /\ asm = NewAssembler
    /\ probe = NoProbe
    /\ dec = NoDecode
    /\ dbg = NewDebugger
    /\ run_base = 0

\* `break <addr>`: set_breakpoint inserts the parsed address.
DbgBreak ==
    /\ mode = "idle"
    /\ dbg.at = "prompt"
    /\ \E a \in BreakAddrs :
          /\ Cardinality(dbg.breakpoints \cup {a}) <= MaxBreaks
          /\ dbg' = [dbg EXCEPT !.breakpoints = @ \cup {a}, !.stop = "none"]
    /\ UNCHANGED <<cpu, halted, metrics, result, mode, steps, max_steps, run_result,
                   run_calls, calls, retired, prev, twin, asm, probe, dec>>
    /\ UNCHANGED run_base

\* `step`: Debugger::step calls executor.step once and prints the
\* instruction or the error; a panic unwinds.
DbgStep ==
    /\ mode = "idle"
    /\ dbg.at = "prompt"
    /\ calls < MaxDebug
    /\ \E o \in {step(cpu, halted, metrics)} :
           /\ cpu' = o.cpu
           /\ metrics' = o.metrics
           /\ result' = o.res
           /\ mode' = IF o.res.tag = "Panic" THEN "dead" ELSE "idle"
           /\ retired' = retired + (IF IsOk(o.res) THEN 1 ELSE 0)
    /\ calls' = calls + 1
    /\ prev' = [cpu |-> cpu, metrics |-> metrics, halted |-> halted]
    /\ dbg' = [dbg EXCEPT !.stop = "none"]
    /\ UNCHANGED <<halted, steps, max_steps, run_result, run_calls, twin, asm, probe, dec>>
    /\ UNCHANGED run_base

\* `continue`: continue_exec is entered.
DbgContinue ==
    /\ mode = "idle"
    /\ dbg.at = "prompt"
    /\ dbg' = [dbg EXCEPT !.at = "loop", !.stop = "none", !.trail = <<>>]
    /\ UNCHANGED <<cpu, halted, metrics, result, mode, steps, max_steps, run_result,
                   run_calls, calls, retired, prev, twin, asm, probe, dec>>
    /\ UNCHANGED run_base

\* One iteration of the loop of continue_exec.  `return false` goes back to
\* the prompt; `return true` makes run break out of its loop.
DbgContinueIter ==
    /\ mode = "idle"
    /\ dbg.at = "loop"
    /\ calls < MaxDebug \/ cpu.pc \in dbg.breakpoints
    /\ \E it \in {continue_iter(cpu, halted, metrics, dbg.breakpoints)} :
           /\ cpu' = it.cpu
           /\ metrics' = it.metrics
           /\ result' = IF it.stepped THEN it.res ELSE result
           /\ mode' = IF it.ret = "panic" THEN "dead" ELSE "idle"
           /\ retired' = retired + (IF IsOk(it.res) THEN 1 ELSE 0)
           /\ calls' = calls + (IF it.stepped THEN 1 ELSE 0)
           /\ prev' = IF it.stepped
                      THEN [cpu |-> cpu, metrics |-> metrics, halted |-> halted]
                      ELSE prev
           /\ dbg' = [dbg EXCEPT
                        !.at = CASE it.ret = "false" -> "prompt"
                                 [] it.ret = "true" -> "exit"
                                 [] OTHER -> "loop",
                        !.stop = CASE it.ret = "false" -> "breakpoint"
                                   [] it.ret = "true" -> "error"
                                   [] OTHER -> "none",
                        !.trail = IF it.stepped THEN Append(@, cpu.pc) ELSE @]
    /\ UNCHANGED <<halted, steps, max_steps, run_result, run_calls, twin, asm, probe, dec>>
    /\ UNCHANGED run_base

\* `quit`: run returns.
DbgQuit ==
    /\ mode = "idle"
    /\ dbg.at = "prompt"
    /\ dbg' = [dbg EXCEPT !.at = "exit", !.stop = "none"]
    /\ UNCHANGED <<cpu, halted, metrics, result, mode, steps, max_steps, run_result,
                   run_calls, calls, retired, prev, twin, asm, probe, dec>>
    /\ UNCHANGED run_base

DebugNext == DbgBreak \/ DbgStep \/ DbgContinue \/ DbgContinueIter \/ DbgQuit

DebugSpec == DebugInit /\ [][DebugNext]_vars

\* ------------------------------------------------------------ claims

\* step has been called at least once.
Stepped == calls > 0

\* addr and addr+3 are both valid addresses of mem (addr read as usize).
WordValid(mem, addr) == addr.hi = 0 /\ (addr.lo + 3) \in DOMAIN mem

\* The last call of step got past the halted test and fetched a word.
LastFetched == Stepped /\ ~prev.halted /\ WordValid(prev.cpu.mem, prev.cpu.pc)

\* The instruction the last call of step decoded (when LastFetched).
LastInst == decode(read_word(prev.cpu.mem, prev.cpu.pc))

\* The effective address x[rs1] + imm of that instruction.
LastAddr == wrapping_add(prev.cpu.regs[LastInst.rs1], LastInst.imm)

\* That instruction is a conditional branch whose condition held.
LastTaken ==
    /\ LastInst.opcode \in {"Beq", "Bne", "Blt", "Bge"}
    /\ branch_cond(LastInst.opcode, prev.cpu.regs[LastInst.rs1], prev.cpu.regs[LastInst.rs2])

\* C1: register 0 holds 0 in every reachable state, whatever the program and
\* the number of steps; an instruction with rd = 0 leaves it at 0.
C1_X0AlwaysZero == cpu.regs[0] = Zero32

\* C1 witness: a LUI with rd = 0 and a non-zero immediate has been executed.
C1_Witness ==
    /\ LastFetched /\ IsOk(result)
    /\ LastInst.opcode = "Lui" /\ LastInst.rd = 0 /\ LastInst.imm # Zero32
    /\ cpu.regs[0] = Zero32

\* C2 as claimed: from a PC that is a multiple of 4, after every successful
\* step the PC is again a multiple of 4.
C2_Original ==
    (LastFetched /\ IsOk(result) /\ prev.cpu.pc.lo % 4 = 0) => cpu.pc.lo % 4 = 0

\* C2 amended: from a PC that is a multiple of 4, after every successful step
\* the PC is a multiple of 2; it is a multiple of 4 unless the step is a JALR,
\* or a JAL or taken branch whose offset is not a multiple of 4.
C2_PcEven ==
    (LastFetched /\ IsOk(result) /\ prev.cpu.pc.lo % 4 = 0) =>
        /\ cpu.pc.lo % 2 = 0
        /\ \/ LastInst.opcode = "Jalr"
           \/ (LastInst.opcode = "Jal" \/ LastTaken) /\ LastInst.imm.lo % 4 # 0
           \/ cpu.pc.lo % 4 = 0

\* C2 witness: a JALR from an aligned PC has left the PC at 2 modulo 4.
C2_Witness ==
    /\ LastFetched /\ IsOk(result) /\ prev.cpu.pc.lo % 4 = 0
    /\ LastInst.opcode = "Jalr" /\ cpu.pc.lo % 4 = 2

\* C3: a step changes memory only when it executes SW, and then only the
\* bytes addr .. addr+3 with addr = x[rs1] + imm; any other step leaves the
\* whole memory as it was.
C3_StoreFrame ==
    Stepped =>
        /\ DOMAIN cpu.mem = DOMAIN prev.cpu.mem
        /\ \A i \in DOMAIN cpu.mem :
              cpu.mem[i] # prev.cpu.mem[i] =>
                  /\ LastFetched /\ IsOk(result) /\ LastInst.opcode = "Sw"
                  /\ LastAddr.hi = 0
                  /\ LastAddr.lo <= i /\ i <= LastAddr.lo + 3

\* C3 witness: an SW has changed memory.
C3_Witness ==
    /\ LastFetched /\ IsOk(result) /\ LastInst.opcode = "Sw"
    /\ cpu.mem # prev.cpu.mem

\* C4 as claimed: inst_count equals the number of step calls that returned
\* Ok; a failing step does not increase it.
C4_CountIsRetired == metrics.inst_count = retired

RECURSIVE SumOver(_, _)
SumOver(f, S) ==
    IF S = {} THEN 0
    ELSE LET k == CHOOSE x \in S : TRUE
         IN  f[k] + SumOver(f, S \ {k})

\* C5: the per-kind counts of inst_mix sum to inst_count.
C5_MixSumsToCount == SumOver(metrics.inst_mix, DOMAIN metrics.inst_mix) = metrics.inst_count

\* C5 witness: three instructions of two kinds have been recorded.
C5_Witness ==
    /\ metrics.inst_count = 3
    /\ Cardinality(DOMAIN metrics.inst_mix) = 2

\* C6: once halted is set it stays set, and every later call of step returns
\* the halted error and leaves registers, PC, memory and metrics unchanged.
C6_HaltedSticks ==
    [][halted =>
          /\ halted'
          /\ calls' # calls => (result' = ErrHalted /\ cpu' = cpu /\ metrics' = metrics)]_vars

\* C6 witness: step has been called on a halted executor.
C6_Witness == halted /\ result = ErrHalted /\ prev.halted

\* C7: an iteration of run whose step succeeds ends the run exactly when the
\* PC is then 0, returning the number of steps made and setting halted (so no
\* further instruction executes); the PC is not tested before the first
\* step, so a run entered at PC 0 with max_steps > 0 makes its first step.
C7_RunHaltsAtPcZero ==
    [][/\ (mode = "run" /\ calls' # calls /\ IsOk(result')) =>
              IF cpu'.pc = Zero32
              THEN mode' = "idle" /\ halted' /\ run_result' = run_ok(run_calls')
              ELSE mode' = "run" /\ halted' = halted /\ run_result'.tag = "None"
       /\ (mode = "run" /\ steps = 0 /\ max_steps > 0 /\ cpu.pc = Zero32) =>
              calls' = calls + 1]_vars

\* C7 witness: a run with max_steps = 3 has halted after its second step.
C7_Witness ==
    /\ mode = "idle" /\ halted /\ cpu.pc = Zero32
    /\ max_steps = 3 /\ run_result = run_ok(2) /\ run_calls = 2

\* C8: run makes at most max_steps step calls and a returned count is at most
\* max_steps; the run ends, since every iteration either leaves the run or
\* raises steps by one towards max_steps, which does not change.
C8_RunBounded ==
    /\ [](/\ run_calls <= max_steps
          /\ steps <= max_steps
          /\ run_result.tag = "Ok" => run_result.n <= max_steps)
    /\ [][mode = "run" =>
              \/ mode' # "run"
              \/ steps' = steps + 1 /\ max_steps' = max_steps /\ run_calls' = run_calls + 1]_vars

\* C8 witness: a run has ended at the cap, not halted, after max_steps = 3 steps.
C8_Witness ==
    /\ mode = "idle" /\ ~halted
    /\ max_steps = 3 /\ run_result = run_ok(3) /\ run_calls = 3

\* C9: a step that decodes UNKNOWN returns the illegal-instruction error
\* naming the PC and leaves registers, PC, memory (and halted) as they were;
\* run returns that error and does not set halted.
C9_UnknownIsError ==
    /\ []((LastFetched /\ LastInst.opcode = "Unknown") =>
              /\ result = ErrUnknown(prev.cpu.pc)
              /\ cpu = prev.cpu
              /\ halted = prev.halted)
    /\ [][(mode = "run" /\ calls' # calls /\ result'.tag = "Err") =>
              /\ mode' = "idle"
              /\ run_result' = [tag |-> "Err", n |-> 0, e |-> result']
              /\ halted' = halted]_vars

\* C9 witness: a run has returned the illegal-instruction error of a word at
\* a PC other than 0.
C9_Witness ==
    /\ LastFetched /\ LastInst.opcode = "Unknown" /\ prev.cpu.pc # Zero32
    /\ mode = "idle" /\ run_result.tag = "Err" /\ run_result.e = ErrUnknown(prev.cpu.pc)
    /\ ~halted

\* The last call of step fetched, loaded or stored at an address whose
\* addr+3 is outside memory.
LastOutOfBounds ==
    \/ ~WordValid(prev.cpu.mem, prev.cpu.pc)
    \/ /\ LastInst.opcode \in {"Lw", "Sw"}
       /\ ~WordValid(prev.cpu.mem, LastAddr)

\* C10 as claimed: such a step returns an error result from step, with
\* registers, PC and memory unchanged.
C10_Original ==
    (Stepped /\ ~prev.halted /\ LastOutOfBounds) =>
        (result.tag = "Err" /\ cpu = prev.cpu)

\* C10 amended: such a step panics with the memory-bounds message for that
\* address (the panic unwinds out of step and run; step returns no error
\* result), with registers, PC and memory unchanged; read_word and
\* write_word succeed exactly when addr+3 is a valid address.
C10_BoundsPanic ==
    (Stepped /\ ~prev.halted) =>
        /\ result.tag = "Panic" <=> LastOutOfBounds
        /\ LastOutOfBounds =>
              /\ cpu = prev.cpu
              /\ mode = "dead"
              /\ IF ~WordValid(prev.cpu.mem, prev.cpu.pc)
                 THEN result = PanicRead(prev.cpu.pc)
                 ELSE result = IF LastInst.opcode = "Lw"
                               THEN PanicRead(LastAddr) ELSE PanicWrite(LastAddr)

\* C10 witness: an SW to an address outside memory has panicked.
C10_Witness ==
    /\ LastFetched /\ LastInst.opcode = "Sw" /\ ~WordValid(prev.cpu.mem, LastAddr)
    /\ result.tag = "Panic" /\ cpu = prev.cpu

\* C11: write_word(a, v) followed by read_word(a) returns v for every
\* in-bounds address a, aligned or not, with byte a holding the least
\* significant byte of v; and `sw x2,0(x1)` followed by `lw x3,0(x1)` leaves
\* x3 equal to x2.
C11_WriteReadRoundTrip ==
    /\ probe.tag = "Ok" =>
          /\ probe.read = probe.val
          /\ probe.byte = probe.val.lo % 256
    /\ (/\ calls = 2 /\ retired = 2 /\ prev.cpu.pc = FromNat(4)
        /\ decode(read_word(prev.cpu.mem, Zero32)) = Instruction("Sw", 0, 1, 2, Zero32)
        /\ LastInst = Instruction("Lw", 3, 1, 0, Zero32)) =>
           cpu.regs[3] = cpu.regs[2]

\* C11 witness: sw/lw have moved 0xdeadbeef from x2 to x3, and a direct write
\* of 0xdeadbeef at the unaligned address 13 has been read back.
C11_Witness ==
    /\ calls = 2 /\ retired = 2 /\ prev.cpu.pc = FromNat(4)
    /\ decode(read_word(prev.cpu.mem, Zero32)) = Instruction("Sw", 0, 1, 2, Zero32)
    /\ LastInst = Instruction("Lw", 3, 1, 0, Zero32)
    /\ cpu.regs[3] = W(57005, 48879)
    /\ probe.tag = "Ok" /\ probe.addr = FromNat(13) /\ probe.val = W(57005, 48879)
    /\ probe.read = W(57005, 48879) /\ probe.byte = 239

\* C19: a JALR step sets x[rd] to PC+4 (unless rd is 0) and the PC to
\* x[rs1] + imm with bit 0 cleared, x[rs1] being the value held before the
\* step, also when rd and rs1 are the same register; no other register
\* changes and the new PC has bit 0 equal to 0.
C19_JalrLinkAndTarget ==
    (LastFetched /\ LastInst.opcode = "Jalr") =>
        LET t == wrapping_add(prev.cpu.regs[LastInst.rs1], LastInst.imm)
        IN  /\ IsOk(result)
            /\ cpu.pc.hi = t.hi
            /\ cpu.pc.lo = 2 * (t.lo \div 2)
            /\ cpu.pc.lo % 2 = 0
            /\ \A r \in 0 .. NREGS - 1 :
                  cpu.regs[r] = IF r = LastInst.rd /\ r # 0
                                THEN wrapping_add(prev.cpu.pc, FromNat(4))
                                ELSE prev.cpu.regs[r]

\* C19 witness: a JALR with rd = rs1 = x1, x1 + imm = 14, has linked and
\* jumped to 14.
C19_Witness ==
    /\ LastFetched /\ LastInst.opcode = "Jalr" /\ IsOk(result)
    /\ LastInst.rd = 1 /\ LastInst.rs1 = 1
    /\ prev.cpu.regs[1] = FromNat(13) /\ LastInst.imm = FromNat(1)
    /\ cpu.pc = FromNat(14) /\ cpu.regs[1] = FromNat(4)

\* Shifting a by one bit: left, right with zero fill, right with sign fill.
ShiftOne(op, a) ==
    CASE op \in {"Sll", "Slli"} -> wrapping_add(a, a)
      [] op \in {"Srl", "Srli"} -> W(a.hi \div 2, (a.lo \div 2) + (a.hi % 2) * 32768)
      [] op \in {"Sra", "Srai"} ->
            W((a.hi \div 2) + (IF a.hi >= 32768 THEN 32768 ELSE 0),
              (a.lo \div 2) + (a.hi % 2) * 32768)

\* Shifting a by n bits, one bit at a time.
RECURSIVE ShiftBy(_, _, _)
ShiftBy(op, a, n) ==
    IF n = 0 THEN a
    ELSE CHOOSE r \in {ShiftOne(op, x) : x \in {ShiftBy(op, a, n - 1)}} : TRUE

\* The last step's shift amount operand: x[rs2] for SLL/SRL/SRA, imm for
\* SLLI/SRLI/SRAI.
LastShiftAmount ==
    IF LastInst.opcode \in {"Sll", "Srl", "Sra"}
    THEN prev.cpu.regs[LastInst.rs2]
    ELSE LastInst.imm

\* C20: a shift step never fails and writes to rd the operand shifted by the
\* low 5 bits of its shift amount s (x[rs2], or imm), whatever s is: the
\* same as a shift by s mod 32.
C20_ShiftAmountMasked ==
    (LastFetched /\ LastInst.opcode \in {"Sll", "Srl", "Sra", "Slli", "Srli", "Srai"}) =>
        LET a == prev.cpu.regs[LastInst.rs1]
            s == LastShiftAmount
        IN  /\ IsOk(result)
            /\ LastInst.rd # 0 =>
                  /\ cpu.regs[LastInst.rd] = ShiftBy(LastInst.opcode, a, s.lo % 32)
                  /\ LastInst.opcode \in {"Sll", "Srl", "Sra"} =>
                        cpu.regs[LastInst.rd] =
                            exec_rtype(LastInst.opcode, a, FromNat(s.lo % 32))
                  /\ LastInst.opcode \in {"Slli", "Srli", "Srai"} =>
                        cpu.regs[LastInst.rd] =
                            exec_itype(LastInst.opcode, a, FromNat(s.lo % 32))

\* C20 witness: sll with x2 = 36 as shift amount has shifted 0xff by 4.
C20_Witness ==
    /\ LastFetched /\ IsOk(result)
    /\ LastInst.opcode = "Sll"
    /\ prev.cpu.regs[LastInst.rs2] = FromNat(36)
    /\ prev.cpu.regs[LastInst.rs1] = FromNat(255)
    /\ cpu.regs[3] = FromNat(4080)

InstLines(src) == SelectSeq(src, LAMBDA l : l.kind = "inst" /\ ~ends_with_colon(l))
LineAddress(i) == 4 * (i - 1)

KindOf(op) ==
    CASE op = "add" -> "Add" [] op = "sub" -> "Sub" [] op = "and" -> "And"
      [] op = "or" -> "Or" [] op = "xor" -> "Xor" [] op = "sll" -> "Sll"
      [] op = "srl" -> "Srl" [] op = "sra" -> "Sra"
      [] op = "addi" -> "Addi" [] op = "andi" -> "Andi" [] op = "ori" -> "Ori"
      [] op = "xori" -> "Xori" [] op = "slli" -> "Slli" [] op = "srli" -> "Srli"
      [] op = "srai" -> "Srai"
      [] op = "lw" -> "Lw" [] op = "sw" -> "Sw"
      [] op = "beq" -> "Beq" [] op = "bne" -> "Bne" [] op = "blt" -> "Blt"
      [] op = "bge" -> "Bge"
      [] op = "lui" -> "Lui" [] op = "auipc" -> "Auipc"
      [] op = "jal" -> "Jal" [] op = "jalr" -> "Jalr"
      [] OTHER -> "Unknown"

\* The line has the operands its mnemonic takes.
Shaped(line) ==
    LET shape == [i \in 1 .. Len(line.args) |-> line.args[i].t]
    IN  CASE line.op \in RTypeOps -> shape = <<"reg", "reg", "reg">>
          [] line.op \in ITypeOps -> shape \in {<<"reg", "reg", "num">>, <<"reg", "reg", "hex">>}
          [] line.op \in MemOps -> shape \in {<<"reg", "mem">>, <<"reg", "mem0">>}
          [] line.op \in UTypeOps -> shape \in {<<"reg", "num">>, <<"reg", "hex">>}
          [] line.op \in BranchOps ->
                shape \in {<<"reg", "reg", "num">>, <<"reg", "reg", "hex">>, <<"reg", "reg", "sym">>}
          [] line.op = "jal" -> shape \in {<<"reg", "num">>, <<"reg", "hex">>, <<"reg", "sym">>}
          [] OTHER -> FALSE

\* The last operand: the immediate, memory operand or label of a shaped line.
LastArg(line) == line.args[Len(line.args)]
Numeric(line) == Shaped(line) /\ line.op \notin RTypeOps /\ LastArg(line).t # "sym"
Symbolic(line) == Shaped(line) /\ LastArg(line).t = "sym"

\* The register numbers written on the line and the number written as its
\* immediate, offset or target.
RegsOf(line) ==
    {line.args[i].n : i \in {j \in 1 .. Len(line.args) : line.args[j].t \in {"reg", "mem", "mem0"}}}
ImmOf(line) == LastArg(line).v

\* The signed field of the mnemonic: 12 bits (I and S), 20 bits (U), 13 bits
\* (B) and 21 bits (J); a branch or jump field holds target - address.
FitsField(line, pc) ==
    CASE line.op \in ITypeOps \cup MemOps -> ImmOf(line) \in -2048 .. 2047
      [] line.op \in UTypeOps -> ImmOf(line) \in -524288 .. 524287
      [] line.op \in BranchOps -> ImmOf(line) - pc \in -4096 .. 4095
      [] line.op = "jal" -> ImmOf(line) - pc \in -1048576 .. 1048575
      [] OTHER -> TRUE

\* The instruction as written: kind, registers in their roles, immediate.
Written(line, imm) ==
    CASE line.op \in RTypeOps ->
            Instruction(KindOf(line.op), line.args[1].n, line.args[2].n, line.args[3].n, Zero32)
      [] line.op \in ITypeOps ->
            Instruction(KindOf(line.op), line.args[1].n, line.args[2].n, 0, imm)
      [] line.op \in {"lw", "jalr"} ->
            Instruction(KindOf(line.op), line.args[1].n, line.args[2].n, 0, imm)
      [] line.op = "sw" ->
            Instruction("Sw", 0, line.args[2].n, line.args[1].n, imm)
      [] line.op \in BranchOps ->
            Instruction(KindOf(line.op), 0, line.args[1].n, line.args[2].n, imm)
      [] line.op \in UTypeOps ->
            Instruction(KindOf(line.op), line.args[1].n, 0, 0, imm)
      [] line.op = "jal" ->
            Instruction("Jal", line.args[1].n, 0, 0, imm)

\* The immediate as the claim reads it: the operand, shifted left by 12 for
\* lui and auipc.
OperandImm(line) ==
    IF line.op \in RTypeOps THEN Zero32
    ELSE IF line.op \in UTypeOps THEN Shl(ToU32(ImmOf(line)), 12)
    ELSE ToU32(ImmOf(line))

\* The immediate the decoder gives back: a shift keeps its funct7 bits (srai
\* has bit 10 set), a branch or jump holds target - address without bit 0.
DecodedImm(line, pc) ==
    IF line.op = "srai" THEN ToU32(ImmOf(line) + 1024)
    ELSE IF line.op \in BranchOps \cup {"jal"} THEN ToU32(2 * ((ImmOf(line) - pc) \div 2))
    ELSE OperandImm(line)

\* C12 as the spec states it: a line with registers in x0..x31 and an
\* immediate that fits the signed field assembles, and its word decodes to
\* the same kind, the same registers and the same immediate.
C12_Original ==
    \A i \in 1 .. Len(InstLines(asm.src)) :
        LET line == InstLines(asm.src)[i]
        IN  (/\ Shaped(line) /\ ~Symbolic(line)
             /\ RegsOf(line) \subseteq 0 .. 31
             /\ FitsField(line, LineAddress(i)))
            => /\ Len(InstLines(asm.src)) = 1 => asm.out.tag = "Ok"
               /\ asm.out.tag = "Ok" => decode(asm.out.code[i]) = Written(line, OperandImm(line))

\* C12 (amended): a line with registers in x0..x31 and an immediate that fits
\* the signed field (a shift amount in 0..31) assembles, and its word decodes
\* to the same kind and registers; the immediate is the operand (shifted left
\* by 12 for lui and auipc), except that srai gives operand + 1024 and a
\* branch or jal with a numeric target gives target - address with bit 0
\* cleared.
C12_AssembleDecode ==
    \A i \in 1 .. Len(InstLines(asm.src)) :
        LET line == InstLines(asm.src)[i]
        IN  (/\ Shaped(line) /\ ~Symbolic(line)
             /\ RegsOf(line) \subseteq 0 .. 31
             /\ FitsField(line, LineAddress(i))
             /\ line.op \in ShiftOps => ImmOf(line) \in 0 .. 31)
            => /\ Len(InstLines(asm.src)) = 1 => asm.out.tag = "Ok"
               /\ asm.out.tag = "Ok" =>
                     /\ decode(asm.out.code[i]) = Written(line, DecodedImm(line, LineAddress(i)))
                     /\ line.op \in ShiftOps =>
                           decode(asm.out.code[i]).imm.lo % 32 = ImmOf(line)

\* An assembled `srai x5, x31, 4`: it decodes to Srai with the registers as
\* written and the immediate 1028, whose low 5 bits are the operand.
C12_Witness ==
    /\ asm.src = <<Inst("srai", <<Reg(5), Reg(31), Num(4)>>)>>
    /\ asm.out.tag = "Ok"
    /\ decode(asm.out.code[1]) = Instruction("Srai", 5, 31, 0, FromNat(1028))

\* C13: every slli, srli or srai line the assembler accepts, whatever its
\* immediate, decodes to the same shift kind with a shift amount equal to the
\* operand in its low 5 bits.
C13_ShiftRoundTrip ==
    \A i \in 1 .. Len(InstLines(asm.src)) :
        LET line == InstLines(asm.src)[i]
        IN  (/\ line.op \in ShiftOps /\ Shaped(line)
             /\ RegsOf(line) \subseteq 0 .. 31
             /\ asm.out.tag = "Ok")
            => /\ decode(asm.out.code[i]).opcode = KindOf(line.op)
               /\ decode(asm.out.code[i]).imm.lo % 32 = ImmOf(line) % 32

\* ---- labels

\* The address a label stands for: 4 bytes for each instruction line above
\* its definition (the last definition if there are several).
RECURSIVE InstBefore(_, _)
InstBefore(src, k) ==
    IF k <= 1 THEN 0
    ELSE InstBefore(src, k - 1)
         + (IF src[k - 1].kind = "inst" /\ ~ends_with_colon(src[k - 1]) THEN 1 ELSE 0)
Defines(src, name) == \E k \in 1 .. Len(src) : src[k].kind = "label" /\ src[k].name = name
LabelAddress(src, name) ==
    LET k == CHOOSE j \in 1 .. Len(src) :
                 /\ src[j].kind = "label" /\ src[j].name = name
                 /\ \A m \in j + 1 .. Len(src) : ~(src[m].kind = "label" /\ src[m].name = name)
    IN  4 * InstBefore(src, k)

\* C14: for a branch or jal whose operand is a label defined in the source,
\* the address of the label is the address of the instruction plus the
\* immediate its word decodes to, backward and forward, and the word decodes
\* to the written kind and registers.
C14_LabelOffset ==
    \A i \in 1 .. Len(InstLines(asm.src)) :
        LET line == InstLines(asm.src)[i]
        IN  (/\ Symbolic(line)
             /\ Defines(asm.src, LastArg(line).name)
             /\ RegsOf(line) \subseteq 0 .. 31
             /\ asm.out.tag = "Ok")
            => LET inst == decode(asm.out.code[i])
               IN  /\ FromNat(LabelAddress(asm.src, LastArg(line).name))
                        = wrapping_add(FromNat(LineAddress(i)), inst.imm)
                   /\ inst = Written(line, inst.imm)

\* The source of test_with_labels assembled on an Assembler that already
\* holds labels: its beq reaches `end` 8 bytes ahead and its jal reaches
\* `loop` 8 bytes back.
C14_Witness ==
    /\ asm.src = ProgLabels
    /\ asm.n = 2
    /\ asm.out.tag = "Ok"
    /\ decode(asm.out.code[3]) = Instruction("Beq", 0, 1, 2, FromNat(8))
    /\ decode(asm.out.code[4]) = Instruction("Jal", 0, 0, 0, ToU32(-8))

\* ---- operands out of range

\* C15: when the immediate of a line does not fit its signed field (12 bits
\* for I and S, 20 for U, 13 for a branch offset, 21 for a jump offset), the
\* assembler returns an error and no bytes.
C15_RangeChecked ==
    (\E i \in 1 .. Len(InstLines(asm.src)) :
        LET line == InstLines(asm.src)[i]
        IN  /\ Numeric(line)
            /\ RegsOf(line) \subseteq 0 .. 31
            /\ ~FitsField(line, LineAddress(i)))
    => asm.out.tag = "Err" /\ asm.out.code = <<>>

\* C16: when a line names a register x<N> with N > 31, the assembler returns
\* the malformed-register error and no word.
C16_RegisterChecked ==
    (\E i \in 1 .. Len(InstLines(asm.src)) :
        LET line == InstLines(asm.src)[i]
        IN  Shaped(line) /\ \E n \in RegsOf(line) : n > 31)
    => asm.out.tag = "Err" /\ asm.out.code = <<>>

\* ---- scenario S5

\* The run of the loop program counting to k has returned.
LoopRan(k) == asm.src = ProgLoop(k) /\ asm.out.tag = "Ok" /\ run_result # NoRun
\* The steps the loop program counting to k retires: the first addi, then k
\* rounds of addi, addi, bne.
LoopSteps(k) == 3 * k + 1

\* C17 as the spec states it: the loop program counting to 5, run with
\* max_steps = 100 from PC = 0, returns successfully with at most 100
\* retired, x1 = 5, a taken and a not-taken branch recorded.
C17_Original ==
    (LoopRan(5) /\ max_steps = 100)
    => /\ run_result.tag = "Ok"
       /\ run_result.n <= 100
       /\ cpu.regs[1] = FromNat(5)
       /\ metrics.branch_taken >= 1
       /\ metrics.branch_not_taken >= 1

\* C17 (amended): the loop program counting to k retires 3k + 1
\* instructions, leaves x1 = x2 = k with k - 1 taken branches and 1 not taken,
\* and then fetches the zero word after the program: run returns the
\* unknown-instruction error at pc = 0x10 when max_steps exceeds 3k + 1, and
\* Ok(max_steps) otherwise.  For k = 5 and max_steps = 100: 16 retired, x1 = 5,
\* 4 taken and 1 not taken, 17 instructions counted, the error returned.
C17_LoopScenario ==
    /\ \A k \in 1 .. MaxLoop :
          LoopRan(k) =>
            IF max_steps > LoopSteps(k)
            THEN /\ run_result = [tag |-> "Err", n |-> 0, e |-> ErrUnknown(FromNat(16))]
                 /\ retired = LoopSteps(k) /\ steps = LoopSteps(k)
                 /\ cpu.regs[1] = FromNat(k) /\ cpu.regs[2] = FromNat(k)
                 /\ metrics.branch_taken = k - 1
                 /\ metrics.branch_not_taken = 1
                 /\ metrics.inst_count = LoopSteps(k) + 1
                 /\ cpu.pc = FromNat(16)
                 /\ ~halted
            ELSE /\ run_result = run_ok(max_steps)
                 /\ retired = max_steps
    /\ (LoopRan(5) /\ max_steps = 100)
       => /\ run_result.tag = "Err"
          /\ retired = 16 /\ retired <= 100
          /\ cpu.regs[1] = FromNat(5)
          /\ metrics.branch_taken = 4 /\ metrics.branch_not_taken = 1

\* The scenario's run has returned: k = 5, max_steps = 100, x1 = 5.
C17_Witness ==
    /\ LoopRan(5)
    /\ max_steps = 100
    /\ mode = "idle"
    /\ cpu.regs[1] = FromNat(5)
    /\ metrics.branch_taken >= 1 /\ metrics.branch_not_taken >= 1

\* ---- branches

\* A u32 read as an i32: the number its bit pattern stands for in two's
\* complement.
SignedValue(a) == (IF a.hi >= 32768 THEN a.hi - 65536 ELSE a.hi) * 65536 + a.lo

\* The condition of a conditional branch on the values a and b of x[rs1] and
\* x[rs2].
BranchHolds(op, a, b) ==
    CASE op = "Beq" -> a = b
      [] op = "Bne" -> a # b
      [] op = "Blt" -> SignedValue(a) < SignedValue(b)
      [] op = "Bge" -> SignedValue(a) >= SignedValue(b)

\* C21: a conditional-branch step succeeds and takes the branch exactly when
\* its condition holds (beq: equal, bne: different, blt: less as signed
\* values, bge: greater or equal as signed values); the PC becomes PC + imm
\* modulo 2^32 when taken and PC + 4 otherwise, the outcome is recorded, and
\* registers and memory are unchanged.
C21_BranchTaken ==
    (LastFetched /\ LastInst.opcode \in {"Beq", "Bne", "Blt", "Bge"}) =>
        LET t == BranchHolds(LastInst.opcode, prev.cpu.regs[LastInst.rs1],
                             prev.cpu.regs[LastInst.rs2])
        IN  /\ IsOk(result)
            /\ cpu.pc = wrapping_add(prev.cpu.pc, IF t THEN LastInst.imm ELSE FromNat(4))
            /\ cpu.regs = prev.cpu.regs
            /\ cpu.mem = prev.cpu.mem
            /\ metrics.branch_taken = prev.metrics.branch_taken + (IF t THEN 1 ELSE 0)
            /\ metrics.branch_not_taken = prev.metrics.branch_not_taken + (IF t THEN 0 ELSE 1)

\* C21 witness: `blt x1, x2, -4` at PC = 0 with x1 = 0x80000000 (negative)
\* and x2 = 1 was taken, to PC = 0xfffffffc.
C21_Witness ==
    /\ LastFetched /\ LastInst = Instruction("Blt", 0, 1, 2, ToU32(-4))
    /\ prev.cpu.pc = Zero32
    /\ prev.cpu.regs[1] = W(32768, 0) /\ prev.cpu.regs[2] = FromNat(1)
    /\ cpu.pc = W(65535, 65532)
    /\ metrics.branch_taken = 1

\* ---- comments

\* The operands of a line in front of its first "#".
RECURSIVE BeforeHash(_)
BeforeHash(args) ==
    IF Len(args) = 0 \/ Head(args).t = "hash" THEN <<>>
    ELSE <<Head(args)>> \o BeforeHash(Tail(args))

\* The source without its blank lines, comment lines and trailing comments.
Plain(src) ==
    LET kept == SelectSeq(src, LAMBDA l : l.kind \notin {"blank", "comment"})
    IN  [i \in 1 .. Len(kept) |-> IF kept[i].kind = "inst"
                                  THEN [kept[i] EXCEPT !.args = BeforeHash(@)]
                                  ELSE kept[i]]

\* C24: a source assembles to the bytes of the same source without its
\* trailing `# ...` comments, whole-line comments and blank lines, whatever
\* the text of the comments.
C24_CommentsIgnored ==
    asm.n = 1 => asm.out = assemble(NewAssembler.labels, Plain(asm.src)).out

\* ---- layout of the output

\* Byte j of a word, least significant first.
ByteOf(w, j) == Bits(w, 8 * j, 8)

\* C25: when assemble succeeds the output has 4 bytes for each instruction
\* line, bytes 4k .. 4k+3 are the little-endian bytes of the word of the k-th
\* instruction line (assembled at address 4k), and each label of the source
\* stands for 4 times the number of instruction lines above its last
\* definition.  An instruction line is a line that is not blank, not a
\* comment and does not end with ':'.
C25_OutputLayout ==
    asm.out.tag = "Ok" =>
        LET lines == InstLines(asm.src)
            bytes == WordBytes(asm.out.code)
        IN  /\ DOMAIN bytes = 0 .. 4 * Len(lines) - 1
            /\ \A k \in 0 .. Len(lines) - 1 :
                  LET r == assemble_instruction(lines[k + 1], FromNat(4 * k), asm.labels)
                  IN  /\ r.tag = "Ok"
                      /\ \A j \in 0 .. 3 : bytes[4 * k + j] = ByteOf(r.val, j)
            /\ \A i \in 1 .. Len(asm.src) :
                  asm.src[i].kind = "label" =>
                      /\ asm.src[i].name \in DOMAIN asm.labels
                      /\ asm.labels[asm.src[i].name]
                            = FromNat(LabelAddress(asm.src, asm.src[i].name))

\* The source with `loop` defined at 0 and again at 4 has assembled: 12
\* bytes, loop = 4, the jal at address 4 jumps by 0.
C25_Witness ==
    /\ asm.src = ProgRedefine
    /\ asm.out.tag = "Ok"
    /\ Len(asm.out.code) = 3
    /\ asm.labels["loop"] = FromNat(4)
    /\ decode(asm.out.code[2]) = Instruction("Jal", 0, 0, 0, Zero32)
    /\ WordBytes(asm.out.code)[4] = 111

\* ---- literal targets

\* C26: a branch or jal whose target operand is a literal k, even and within
\* the signed field, decodes with the immediate k wherever the line stands.
C26_LiteralOffset ==
    \A i \in 1 .. Len(InstLines(asm.src)) :
        LET line == InstLines(asm.src)[i]
        IN  (/\ line.op \in BranchOps \cup {"jal"}
             /\ Numeric(line)
             /\ RegsOf(line) \subseteq 0 .. 31
             /\ ImmOf(line) % 2 = 0
             /\ FitsField(line, 0)
             /\ asm.out.tag = "Ok")
            => decode(asm.out.code[i]).imm = ToU32(ImmOf(line))

\* ---- labels of earlier calls

\* C27: the result of assemble(source) is the result on a new Assembler,
\* whatever was assembled before.
C27_LabelsPerCall ==
    asm.n >= 1 => asm.out = assemble(NewAssembler.labels, asm.src).out

\* ---- the decoder on single words

\* The fields of a word: opcode bits 6..0, funct3 bits 14..12, funct7 bits
\* 31..25.
OpcodeBits(raw) == raw.lo % 128
Funct3(raw) == (raw.lo \div 4096) % 8
Funct7(raw) == raw.hi \div 512

\* The record decode returned for raw is well formed: a kind of the closed
\* set, registers in 0..31, and 0 in the fields the format of the word's
\* opcode does not have (R: imm; I: rs2; S and B: rd; U and J: rs1 and rs2;
\* no format: all).
WellFormed(raw, inst) ==
    /\ inst.opcode \in Opcodes
    /\ inst.rd \in 0 .. 31 /\ inst.rs1 \in 0 .. 31 /\ inst.rs2 \in 0 .. 31
    /\ inst.imm \in U32
    /\ CASE OpcodeBits(raw) = 51 -> inst.imm = Zero32
          [] OpcodeBits(raw) \in {19, 3, 103} -> inst.rs2 = 0
          [] OpcodeBits(raw) \in {35, 99} -> inst.rd = 0
          [] OpcodeBits(raw) \in {55, 23, 111} -> inst.rs1 = 0 /\ inst.rs2 = 0
          [] OTHER -> inst = Instruction("Unknown", 0, 0, 0, Zero32)

\* C22: decode returns, for every word, a record with a kind of the closed
\* set, rd, rs1 and rs2 in 0..31 and 0 in the fields the format does not
\* use; a step that fetched a word decoded such a record and ended in Ok, in
\* an error or in a memory-bounds panic, never in a register index out of
\* range.
C22_DecodeTotal ==
    /\ dec.tag = "Ok" => WellFormed(dec.raw, dec.inst)
    /\ LastFetched =>
          /\ WellFormed(read_word(prev.cpu.mem, prev.cpu.pc), LastInst)
          /\ result.tag \in {"Ok", "Err", "Panic"}
          /\ result.tag = "Panic" =>
                result.msg \in {"memory access out of bounds", "memory write out of bounds"}
          /\ DOMAIN cpu.regs = 0 .. NREGS - 1

\* C22 witness: a store word with all of bits 31..15 and 11..7 set was
\* decoded to Sw with rd = 0, rs1 = rs2 = 31, imm = -1, and the step on it
\* panicked on the address.
C22_Witness ==
    /\ dec.tag = "Ok"
    /\ dec.raw = Enc(127, 31, 31, 2, 31, 35)
    /\ dec.inst = Instruction("Sw", 0, 31, 31, Ones32)
    /\ calls = 1 /\ LastFetched
    /\ result.tag = "Panic"

\* C28: a word with opcode 0000011 or 0100011 decodes to Lw or Sw when its
\* funct3 is 010 and to Unknown otherwise, and a step on such a word with
\* another funct3 fails with the unknown-instruction error.
C28_LoadStoreFunct3 ==
    /\ (dec.tag = "Ok" /\ OpcodeBits(dec.raw) \in {3, 35}) =>
          dec.inst.opcode = IF Funct3(dec.raw) # 2 THEN "Unknown"
                            ELSE IF OpcodeBits(dec.raw) = 3 THEN "Lw" ELSE "Sw"
    /\ (/\ LastFetched
        /\ OpcodeBits(read_word(prev.cpu.mem, prev.cpu.pc)) \in {3, 35}
        /\ Funct3(read_word(prev.cpu.mem, prev.cpu.pc)) # 2)
       => result = ErrUnknown(prev.cpu.pc) /\ cpu = prev.cpu

\* C29 as the spec states it: for opcode 0010011 and funct3 = 101 the
\* decoder returns Srai when bit 30 is 1 and Srli when it is 0, whatever the
\* other bits of funct7.
C29_Original ==
    (dec.tag = "Ok" /\ OpcodeBits(dec.raw) = 19 /\ Funct3(dec.raw) = 5) =>
        dec.inst.opcode = IF (Funct7(dec.raw) \div 32) % 2 = 1 THEN "Srai" ELSE "Srli"

\* C29 (amended): for opcode 0010011 and funct3 = 101 the decoder returns
\* Srai when funct7 = 0100000, Srli when funct7 = 0000000 and Unknown for
\* every other funct7; rd, rs1 and the 12-bit immediate are those of the
\* word, and a step on the Unknown word fails.
C29_ShiftDiscriminator ==
    /\ (dec.tag = "Ok" /\ OpcodeBits(dec.raw) = 19 /\ Funct3(dec.raw) = 5) =>
          /\ dec.inst.opcode = CASE Funct7(dec.raw) = 32 -> "Srai"
                                  [] Funct7(dec.raw) = 0 -> "Srli"
                                  [] OTHER -> "Unknown"
          /\ dec.inst.rd = Bits(dec.raw, 7, 5)
          /\ dec.inst.rs1 = Bits(dec.raw, 15, 5)
          /\ dec.inst.imm = sign_extend(Shr(dec.raw, 20), 12)
    /\ (/\ LastFetched
        /\ OpcodeBits(read_word(prev.cpu.mem, prev.cpu.pc)) = 19
        /\ Funct3(read_word(prev.cpu.mem, prev.cpu.pc)) = 5
        /\ Funct7(read_word(prev.cpu.mem, prev.cpu.pc)) \notin {0, 32})
       => result = ErrUnknown(prev.cpu.pc)

\* C29 witness: a word with funct3 = 101, funct7 = 0100001 (bit 30 and bit 25
\* set) was decoded to Unknown and the step on it failed.
C29_Witness ==
    /\ dec.tag = "Ok"
    /\ dec.raw = Enc(33, 31, 31, 5, 1, 19)
    /\ dec.inst.opcode = "Unknown" /\ dec.inst.rd = 1 /\ dec.inst.rs1 = 31
    /\ calls = 1 /\ result = ErrUnknown(Zero32)

\* ---- right shifts

\* floor(s / 2^n) for 0 <= n <= 31, without forming 2^31.
FloorShift(s, n) == IF n > 15 THEN (s \div 32768) \div 2^(n - 15) ELSE s \div 2^n

\* 2^k as a u32, 0 <= k <= 31.
Pow2(k) == IF k >= 16 THEN W(2^(k - 16), 0) ELSE W(0, 2^k)

\* The arithmetic shift: the floor of the signed value divided by 2^n, modulo
\* 2^32.  The logical shift: the floor of the unsigned value (the signed value
\* + 2^32 when the sign bit is set) divided by 2^n.
SraValue(a, n) == ToU32(FloorShift(SignedValue(a), n))
SrlValue(a, n) ==
    IF n = 0 \/ a.hi < 32768 THEN SraValue(a, n)
    ELSE wrapping_add(SraValue(a, n), Pow2(32 - n))

\* C30: sra and srai write floor(signed x[rs1] / 2^shamt) modulo 2^32, so the
\* vacated high bits hold the sign bit of x[rs1]; srl and srli write
\* floor(unsigned x[rs1] / 2^shamt), so they hold zeros.
C30_ShiftFill ==
    (LastFetched /\ LastInst.opcode \in {"Sra", "Srai", "Srl", "Srli"} /\ LastInst.rd # 0) =>
        LET a == prev.cpu.regs[LastInst.rs1]
            n == LastShiftAmount.lo % 32
            r == cpu.regs[LastInst.rd]
        IN  /\ IsOk(result)
            /\ r = IF LastInst.opcode \in {"Sra", "Srai"} THEN SraValue(a, n) ELSE SrlValue(a, n)
            /\ n > 0 =>
                  Shr(r, 32 - n) = IF LastInst.opcode \in {"Sra", "Srai"} /\ a.hi >= 32768
                                   THEN Shr(Ones32, 32 - n) ELSE Zero32

\* C30 witness: srai x3, x1, 4 with x1 = 0x80000000 has written 0xf8000000.
C30_Witness ==
    /\ LastFetched /\ IsOk(result)
    /\ LastInst = Instruction("Srai", 3, 1, 0, FromNat(1028))
    /\ prev.cpu.regs[1] = W(32768, 0)
    /\ cpu.regs[3] = W(63488, 0)

\* ---- the debugger's continue

\* C23: continue tests the breakpoints before every step.  While it loops, a
\* PC that is a breakpoint ends it with nothing executed (Cpu and Metrics as
\* they were, back at the prompt); any other PC is stepped, and only an
\* error of the step ends it.  So no instruction it executed stood at a
\* breakpoint, it reports a breakpoint only with the PC on one, and an error
\* only after the step that failed.
C23_ContinueStops ==
    /\ [](((dbg.at = "loop" \/ dbg.stop # "none") =>
                (\A i \in 1 .. Len(dbg.trail) : dbg.trail[i] \notin dbg.breakpoints))
          /\ ((dbg.stop = "breakpoint") =>
                (dbg.at = "prompt" /\ cpu.pc \in dbg.breakpoints))
          /\ ((dbg.stop = "error") =>
                (dbg.at = "exit" /\ result.tag = "Err" /\ cpu = prev.cpu
                 /\ dbg.trail # <<>> /\ dbg.trail[Len(dbg.trail)] = cpu.pc)))
    /\ [][(dbg.at = "loop" /\ mode = "idle") =>
            IF cpu.pc \in dbg.breakpoints
            THEN /\ cpu' = cpu /\ metrics' = metrics /\ calls' = calls
                 /\ dbg'.at = "prompt" /\ dbg'.stop = "breakpoint"
                 /\ dbg'.trail = dbg.trail
            ELSE /\ calls' = calls + 1
                 /\ dbg'.trail = Append(dbg.trail, cpu.pc)
                 /\ (result'.tag = "Ok") => (dbg'.at = "loop" /\ dbg'.stop = "none")
                 /\ (result'.tag = "Err") => (dbg'.at = "exit" /\ dbg'.stop = "error")]_vars

\* C23 witness: the counting loop with the breakpoint 4.  A continue from 0
\* stopped at 4, a step executed the addi at 4 (x1 = 1), and a second
\* continue executed the instructions at 8 and 12 and stopped at 4 again
\* with the addi there not executed: x1 is still 1 after four steps.
C23_Witness ==
    /\ dbg.stop = "breakpoint"
    /\ dbg.at = "prompt"
    /\ dbg.breakpoints = {FromNat(4)}
    /\ dbg.trail = <<FromNat(8), FromNat(12)>>
    /\ cpu.pc = FromNat(4)
    /\ cpu.regs[1] = FromNat(1)
    /\ calls = 4

\* ---- the branch counters

\* The count inst_mix holds for a kind (0 when the kind was never recorded).
MixOf(name) == IF name \in DOMAIN metrics.inst_mix THEN metrics.inst_mix[name] ELSE 0

\* C31: a step that executed BEQ, BNE, BLT or BGE added 1 to exactly one of
\* branch_taken and branch_not_taken: to branch_taken when the condition held
\* and the PC became PC + imm, to branch_not_taken when it did not and the PC
\* became PC + 4.  Any other call of step left both as they were.  So the
\* two counters sum to the number of conditional branches executed, which is
\* what inst_mix recorded for the four kinds.
C31_BranchCounters ==
    /\ metrics.branch_taken + metrics.branch_not_taken
         = MixOf("Beq") + MixOf("Bne") + MixOf("Blt") + MixOf("Bge")
    /\ Stepped =>
         IF LastFetched /\ LastInst.opcode \in {"Beq", "Bne", "Blt", "Bge"}
         THEN /\ IsOk(result)
              /\ IF LastTaken
                 THEN /\ metrics.branch_taken = prev.metrics.branch_taken + 1
                      /\ metrics.branch_not_taken = prev.metrics.branch_not_taken
                      /\ cpu.pc = wrapping_add(prev.cpu.pc, LastInst.imm)
                 ELSE /\ metrics.branch_taken = prev.metrics.branch_taken
                      /\ metrics.branch_not_taken = prev.metrics.branch_not_taken + 1
                      /\ cpu.pc = wrapping_add(prev.cpu.pc, FromNat(4))
         ELSE /\ metrics.branch_taken = prev.metrics.branch_taken
              /\ metrics.branch_not_taken = prev.metrics.branch_not_taken

\* C31 witness: three branches executed, two not taken and one taken
\* (bne x1, x2, 4 with x1 = x2, beq x1, x2, -4 back to 0, the bne again).
C31_Witness ==
    /\ calls = 3 /\ IsOk(result)
    /\ metrics.branch_taken = 1 /\ metrics.branch_not_taken = 2
    /\ LastFetched /\ LastInst.opcode = "Bne" /\ ~LastTaken
    /\ cpu.pc = FromNat(4)

\* ---- operand counts

\* C32: a source with an instruction line that has fewer operands than its
\* mnemonic takes is answered with an error and no bytes, `lui x1` included.
C32_ShortLineRejected ==
    (\E i \in 1 .. Len(InstLines(asm.src)) :
        LET line == InstLines(asm.src)[i]
        IN  line.op \in AllOps /\ Len(BeforeHash(line.args)) < RequiredArgs(line.op))
    => asm.out.tag = "Err" /\ asm.out.code = <<>>

\* ---- the halt flag

\* C33: the halt flag changes only inside run, from false to true, by an
\* iteration whose step succeeded and left the PC at 0.  A direct call of
\* step (a test's, the debugger's step and continue) leaves it as it was,
\* also when the PC comes to 0.
C33_OnlyRunHalts ==
    [][/\ (halted' # halted) =>
            (/\ mode = "run" /\ ~halted /\ halted'
             /\ calls' = calls + 1 /\ IsOk(result') /\ cpu'.pc = Zero32)
       /\ (mode = "idle" /\ calls' = calls + 1) => (halted' = halted)]_vars

\* C33 witness: three direct calls of step, run never called; the second and
\* the third started at PC = 0, to which the one before had come, and
\* succeeded; the flag is still false.
C33_Witness ==
    /\ mode = "idle" /\ calls = 3 /\ retired = 3
    /\ run_result = NoRun /\ run_calls = 0
    /\ prev.cpu.pc = Zero32 /\ cpu.pc = Zero32
    /\ IsOk(result)
    /\ ~halted

\* ---- what a successful run counted

\* C34: when run returns Ok(n), by the halt detection or by the end of its
\* loop, inst_count is n above what it was when run was called, and run
\* made n calls of step.
C34_RunCountMatches ==
    [][(run_result.tag # "Ok" /\ run_result'.tag = "Ok") =>
          (/\ metrics'.inst_count = run_base + run_result'.n
           /\ run_calls' = run_result'.n)]_vars

\* C34 witness: after one direct step, run was called and returned Ok(2):
\* inst_count went from 1 to 3 over two calls of step.
C34_Witness ==
    /\ mode = "idle"
    /\ run_result.tag = "Ok" /\ run_result.n = 2
    /\ run_base = 1 /\ metrics.inst_count = 3
    /\ run_calls = 2 /\ calls = 3

====
